---- MODULE Spec2Model ----
(***************************************************************************)
(* Model of the generic entity-repository layer of bitrix24-mcp: the       *)
(* pagination, batch, read, write and relationship mixins and the entity   *)
(* (de)serialisation.  Every component has its own specification; the      *)
(* variables of the other components keep their initial value there.       *)
(***************************************************************************)
EXTENDS Integers, Sequences, FiniteSets, TLC

(***************************************************************************)
(* Bounds of the model.                                                    *)
(***************************************************************************)
\* largest page_size argument a walk is started with
MaxPageSize == 2
\* largest number of raw items the remote puts in one page
MaxPageLen == 3
\* number of items the remote source holds at most
MaxTotal == 5
\* largest max_items argument
MaxItemsArg == 3

\* largest number of items handed to batch_create
MaxBatch == 3
\* largest number of ids handed to batch_get_by_ids
MaxIds == 2

\* largest number of records in one listing response
MaxRecords == 2
\* largest number of link records of one deal
MaxLinks == 2
\* largest limit argument of list_entities
MaxLimit == 2

\* largest number of keys of a wire payload that take arbitrary values
MaxFields == 1
\* largest number of _convert_types runs counted on an unchanged entity
MaxCoercions == 2

\* largest number of repositories handed to the registry
MaxRepos == 3
\* largest number of lookups in one run
MaxLookups == 2

\* pagination.py:45  "page_size or 50"
DefaultPageSize == 50

(***************************************************************************)
(* Python helpers.                                                         *)
(***************************************************************************)
Min(a, b) == IF a < b THEN a ELSE b

\* Optional[int]: None, or an integer
NoneOpt == [some |-> FALSE, v |-> 0]
Some(n) == [some |-> TRUE, v |-> n]

\* dict with string keys: d[k] = v  (adds the key when absent)
DictSet(d, k, v) == [x \in (DOMAIN d) \cup {k} |-> IF x = k THEN v ELSE d[x]]

Max(a, b) == IF a > b THEN a ELSE b

\* seq[:n]; a negative n counts from the end
SliceNoCut(s, n) == s
Slice(s, n) == IF n >= 0 THEN SubSeq(s, 1, Min(n, Len(s)))
               ELSE SubSeq(s, 1, Max(0, Len(s) + n))


(***************************************************************************)
(* Python values as the remote delivers them (decoded JSON).  One record   *)
(* shape for all of them, so that any two can be compared:                 *)
(*   t  the type, n  the number (int, bool) or the size (list, dict),      *)
(*   s  the characters of a str.                                           *)
(***************************************************************************)
PyNone == [t |-> "none", n |-> 0, s |-> <<>>]
PyInt(i) == [t |-> "int", n |-> i, s |-> <<>>]
PyStr(chars) == [t |-> "str", n |-> 0, s |-> chars]
PyList(size) == [t |-> "list", n |-> size, s |-> <<>>]
PyDict(size) == [t |-> "dict", n |-> size, s |-> <<>>]
\* a list of str, a mapping named by a token
PyStrList(elems) == [t |-> "list", n |-> Len(elems), s |-> elems]
PyDictOf(token) == [t |-> "dict", n |-> 1, s |-> <<token>>]
PyFloat(x) == [t |-> "float", n |-> x, s |-> <<>>]
PyBool(b) == [t |-> "bool", n |-> IF b THEN 1 ELSE 0, s |-> <<>>]

\* bool(v)
Truthy(v) ==
    CASE v.t = "none" -> FALSE
      [] v.t = "str" -> v.s # <<>>
      [] OTHER -> v.n # 0

DigitChars == {"0", "1", "2", "3", "4", "5", "6", "7", "8", "9"}

DigitVal(c) ==
    CASE c = "0" -> 0 [] c = "1" -> 1 [] c = "2" -> 2 [] c = "3" -> 3
      [] c = "4" -> 4 [] c = "5" -> 5 [] c = "6" -> 6 [] c = "7" -> 7
      [] c = "8" -> 8 [] OTHER -> 9

\* str.isdigit() for ASCII text: not empty, decimal digits only
IsDigit(chars) == chars # <<>> /\ \A i \in 1..Len(chars) : chars[i] \in DigitChars

RECURSIVE DigitsValue(_)
\* the number a string of decimal digits denotes
DigitsValue(chars) ==
    IF chars = <<>> THEN 0
    ELSE 10 * DigitsValue(SubSeq(chars, 1, Len(chars) - 1)) + DigitVal(chars[Len(chars)])

RECURSIVE Strip(_)
\* str.strip() for blanks
Strip(chars) ==
    IF chars # <<>> /\ Head(chars) = " " THEN Strip(Tail(chars))
    ELSE IF chars # <<>> /\ chars[Len(chars)] = " "
    THEN Strip(SubSeq(chars, 1, Len(chars) - 1))
    ELSE chars

\* int(v): [ok, n]; ok = FALSE stands for the ValueError (a str that is no
\* integer literal) or TypeError (None, list, dict) that int() raises
IntOf(v) ==
    CASE v.t \in {"int", "bool"} -> [ok |-> TRUE, n |-> v.n]
      [] v.t = "str" ->
            LET body == Strip(v.s)
                signed == body # <<>> /\ Head(body) \in {"-", "+"}
                digits == IF signed THEN Tail(body) ELSE body
            IN IF IsDigit(digits)
               THEN [ok |-> TRUE,
                     n |-> IF signed /\ Head(body) = "-"
                           THEN 0 - DigitsValue(digits) ELSE DigitsValue(digits)]
               ELSE [ok |-> FALSE, n |-> 0]
      [] OTHER -> [ok |-> FALSE, n |-> 0]

VARIABLES
    \* ---- paginate: arguments
    params,               \* the caller's params mapping
    page_size,            \* Optional[int]
    max_items,            \* Optional[int]
    process_page,         \* which per-page transform the caller supplied
    \* ---- paginate: locals of the running walk
    pg_pc,                \* "start" | "await" | "done"
    current_params,       \* the walk's private copy of params
    all_results,          \* accumulated transformed items
    pg_ret,               \* the value paginate returned
    pg_caught,            \* the except branch (line 80) was taken
    \* ---- the remote side as paginate sees it
    pg_requests,          \* params of every remote call issued, in order
    pg_received,          \* every response received, in order
    pg_acc_at_call,       \* len(all_results) at the time of each call
    served                \* number of items the remote has handed out

pgVars == <<params, page_size, max_items, process_page, pg_pc, current_params,
            all_results, pg_ret, pg_caught, pg_requests, pg_received,
            pg_acc_at_call, served>>

VARIABLES
    \* ---- batch capability: one call of one of its methods
    b_pc,                 \* "idle" | "await" | "done"
    b_op,                 \* the method called
    b_commands,           \* execute_batch's commands: key -> [method, params]
    b_items,              \* batch_create's items
    b_ids,                \* batch_get_by_ids' entity_ids
    b_processor,          \* batch_get_by_ids' processor: raw result -> outcome
    b_requests,           \* every payload sent to call_batch / get_all, in order
    b_response,           \* the response received
    b_ret,                \* the value the method returned
    b_raised              \* an exception left the method

bVars == <<b_pc, b_op, b_commands, b_items, b_ids, b_processor, b_requests,
           b_response, b_ret, b_raised>>

VARIABLES
    \* ---- read, write and relationship capabilities: one call of a method
    c_pc,                 \* "idle" | "await" | "await_links" | "await_contacts" | "done"
    c_op,                 \* the method called
    c_args,               \* its arguments
    c_local,              \* locals kept across an await
    c_requests,           \* every remote call issued: [method, params], in order
    c_responses,          \* every response received, in order
    c_ret,                \* the value the method returned
    c_raised              \* an exception left the method

cVars == <<c_pc, c_op, c_args, c_local, c_requests, c_responses, c_ret, c_raised>>

VARIABLES
    \* ---- entity model: one payload taken from the wire and back
    e_pc,                 \* "idle" | "start" | "built" | "done"
    e_type,               \* the entity class
    e_data,               \* from_bitrix's data: wire key -> value
    e_contact_ids,        \* from_bitrix's contact_ids argument
    e_entity,             \* the entity built
    e_wire,               \* what to_bitrix returned
    e_raised,             \* from_bitrix raised
    e_edit,               \* the caller's change of the built entity, if any
    e_coercions,          \* _convert_types runs since the entity last changed
    e_prev                \* the entity before the last _convert_types run

eVars == <<e_pc, e_type, e_data, e_contact_ids, e_entity, e_wire, e_raised,
           e_edit, e_coercions, e_prev>>

VARIABLES
    \* ---- BitrixRepositoryFactory
    r_registered,         \* the list handed to __init__
    r_repos,              \* self._repository_classes
    r_arg,                \* get_repository's entity_type
    r_ret,                \* the repository it returned
    r_raised,             \* it raised ValueError
    r_lookups             \* lookups so far

rVars == <<r_registered, r_repos, r_arg, r_ret, r_raised, r_lookups>>

VARIABLES
    \* ---- two callers running paginate on one repository at the same time
    w_args,               \* the arguments of the walks and the remote source
    w_pc,                 \* per walk: "start" | "await" | "done"
    w_heap,               \* the mapping objects: 0 is the caller's params
    w_cur,                \* per walk: which mapping object current_params is
    w_lists,              \* the list objects all_results of the walks
    w_requests,           \* per walk: the params as sent with each call
    w_ret,                \* per walk: the list returned
    w_caught              \* per walk: the except branch was taken

wVars == <<w_args, w_pc, w_heap, w_cur, w_lists, w_requests, w_ret, w_caught>>

VARIABLES
    \* ---- BitrixFilterBuilderMixin: one call of a static method
    f_pc,                 \* "idle" | "done"
    f_op,                 \* the method called
    f_args,               \* its arguments
    f_ret,                \* the mapping returned
    f_after               \* the argument objects as they are after the call

fVars == <<f_pc, f_op, f_args, f_ret, f_after>>

vars == <<pgVars, bVars, cVars, eVars, rVars, wVars, fVars>>

\* the variables a component leaves alone
notPaginate == <<bVars, cVars, eVars, rVars, wVars, fVars>>
notBatch == <<pgVars, cVars, eVars, rVars, wVars, fVars>>
notCap == <<pgVars, bVars, eVars, rVars, wVars, fVars>>
notEntity == <<pgVars, bVars, cVars, rVars, wVars, fVars>>
notRegistry == <<pgVars, bVars, cVars, eVars, wVars, fVars>>
notWalks == <<pgVars, bVars, cVars, eVars, rVars, fVars>>
notFilter == <<pgVars, bVars, cVars, eVars, rVars, wVars>>

(***************************************************************************)
(* BitrixPaginationMixin.paginate                                          *)
(***************************************************************************)
start_param_name == "start"

\* the transforms a caller may pass as process_page: the identity, and a
\* per-item filter as get_all builds it (processor returns None for some items)
Transforms == {"identity", "dropEven"}

KeepItem(tr, x) == tr = "identity" \/ x % 2 = 1

ProcessPage(tr, page_items) == SelectSeq(page_items, LAMBDA x : KeepItem(tr, x))

\* line 45
actual_page_size_one == IF page_size.some /\ page_size.v # 0 THEN 1 ELSE DefaultPageSize
actual_page_size == IF page_size.some /\ page_size.v # 0 THEN page_size.v ELSE DefaultPageSize

\* lines 53-55: None stands for float("inf")
total_items_to_fetch == max_items

\* line 57: len(all_results) < total_items_to_fetch
LoopGuardInclusive(all) == ~total_items_to_fetch.some \/ Len(all) <= total_items_to_fetch.v
LoopGuard(all) == ~total_items_to_fetch.some \/ Len(all) < total_items_to_fetch.v

\* line 79: all_results[: int(total_items_to_fetch)]; int(float("inf")) raises
\* OverflowError
ReturnSlice(all) ==
    IF ~total_items_to_fetch.some
    THEN [exc |-> TRUE, val |-> <<>>]
    ELSE [exc |-> FALSE, val |-> Slice(all, total_items_to_fetch.v)]

\* responses of self._bitrix.call
Responses(n) ==
    {[kind |-> k, items |-> <<>>] : k \in {"raise", "none", "noenv", "num"}}
    \cup {[kind |-> "page", items |-> [i \in 1..len |-> n + i]] :
             len \in 0..Min(MaxPageLen, MaxTotal - n)}

\* the walk ends: line 79 on the normal path, lines 80-82 on an exception
Finish(all, exc) ==
    LET r == ReturnSlice(all) IN
    /\ pg_pc' = "done"
    /\ all_results' = all
    /\ pg_caught' = (exc \/ r.exc)
    /\ pg_ret' = IF exc \/ r.exc THEN <<>> ELSE r.val
    /\ UNCHANGED <<pg_requests, pg_acc_at_call>>

\* line 58: the next remote call is issued with the walk's current params
IssueCall(all, cur) ==
    /\ pg_pc' = "await"
    /\ all_results' = all
    /\ pg_requests' = Append(pg_requests, cur)
    /\ pg_acc_at_call' = Append(pg_acc_at_call, Len(all))
    /\ UNCHANGED <<pg_ret, pg_caught>>

\* lines 44-58: set-up and the first test of the loop condition
PaginateBegin ==
    /\ pg_pc = "start"
    /\ LET cur == IF start_param_name \in DOMAIN params
                  THEN params
                  ELSE DictSet(params, start_param_name, 0)
       IN /\ current_params' = cur
          /\ IF LoopGuard(<<>>)
             THEN IssueCall(<<>>, cur)
             ELSE Finish(<<>>, FALSE)
    /\ UNCHANGED <<params, page_size, max_items, process_page, pg_received, served>>
    /\ UNCHANGED notPaginate

\* lines 58-77 and the next test of the loop condition: the response arrives
PaginateResponse ==
    /\ pg_pc = "await"
    /\ \E response \in Responses(served) :
        /\ pg_received' = Append(pg_received, response)
        /\ served' = served + Len(response.items)
        /\ CASE response.kind \in {"raise", "num"} ->
                  \* the call raised, or "result" not in <number> raised TypeError
                  /\ Finish(all_results, TRUE)
                  /\ UNCHANGED current_params
             [] response.kind \in {"none", "noenv"} ->
                  \* line 60: break
                  /\ Finish(all_results, FALSE)
                  /\ UNCHANGED current_params
             [] OTHER ->
                  LET page_items == response.items
                      all == all_results \o ProcessPage(process_page, page_items)
                      cur == [current_params EXCEPT
                                ![start_param_name] = @ + actual_page_size]
                  IN IF page_items = <<>>
                     THEN /\ Finish(all_results, FALSE)
                          /\ UNCHANGED current_params
                     ELSE IF Len(page_items) < actual_page_size
                     THEN /\ Finish(all, FALSE)
                          /\ UNCHANGED current_params
                     ELSE /\ current_params' = cur
                          /\ IF LoopGuard(all)
                             THEN IssueCall(all, cur)
                             ELSE Finish(all, FALSE)
    /\ UNCHANGED <<params, page_size, max_items, process_page>>
    /\ UNCHANGED notPaginate

ParamsArgs ==
    { [k \in {"filter"} |-> 7],
      [k \in {"filter", "start"} |-> IF k = "start" THEN 0 ELSE 7],
      [k \in {"filter", "start"} |-> IF k = "start" THEN 1 ELSE 7] }

NextPaginate == PaginateBegin \/ PaginateResponse

(***************************************************************************)
(* BitrixBatchOperationsMixin                                              *)
(***************************************************************************)
EmptyDict == <<>>

\* d.get(k): None when the key is absent
DictGet(d, k) == IF k \in DOMAIN d THEN d[k] ELSE PyNone

\* f"cmd{i}"
CmdNames == <<"cmd0", "cmd1", "cmd2", "cmd3", "cmd4", "cmd5">>
CmdKey(i) == CmdNames[i + 1]

\* the value under "result" of a response: None, [], a non-empty list, or a
\* mapping m from correlation key to raw result
ResultNone == [rk |-> "none", m |-> EmptyDict]
ResultMap(f) == [rk |-> "map", m |-> f]

\* every mapping from some of the keys to a raw value
ResultMaps(keys, raws) == UNION {[D -> raws] : D \in SUBSET keys}

\* what call_batch may do: raise, or return None, a number, {}, a mapping
\* without "result", or a mapping with "result"
BatchResponses(keys, raws) ==
    {[kind |-> k, result |-> ResultNone] :
        k \in {"raise", "none", "num", "empty", "noenv"}}
    \cup {[kind |-> "env", result |-> [rk |-> r, m |-> EmptyDict]] :
            r \in {"none", "emptylist", "list"}}
    \cup {[kind |-> "env", result |-> ResultMap(f)] : f \in ResultMaps(keys, raws)}

\* execute_batch lines 33-41: one {method, params} entry per correlation key
BatchCommands(commands) ==
    [name \in DOMAIN commands |->
        [method |-> commands[name][1], params |-> commands[name][2]]]

\* execute_batch lines 43-59: the mapping returned for a response
ExecuteBatchOnlyTruthy(response) ==
    IF response.kind = "env" /\ response.result.rk = "map"
    THEN ResultMap([k \in {x \in DOMAIN response.result.m :
                              Truthy(response.result.m[x])} |->
                       response.result.m[k]])
    ELSE ResultMap(EmptyDict)
ExecuteBatchResult(response) ==
    CASE response.kind \in {"raise", "num"} ->
            \* the call raised, or "result" not in <number> raised TypeError
            ResultMap(EmptyDict)
      [] response.kind \in {"none", "empty", "noenv"} ->
            ResultMap(EmptyDict)
      [] OTHER ->
            \* response["result"] or {}
            IF \/ response.result.rk \in {"none", "emptylist"}
               \/ response.result.rk = "map" /\ DOMAIN response.result.m = {}
            THEN ResultMap(EmptyDict)
            ELSE response.result

\* batch_create lines 146-149
CreateCommands(method, items) ==
    [name \in {CmdKey(i - 1) : i \in 1..Len(items)} |->
        LET i == CHOOSE j \in 1..Len(items) : CmdKey(j - 1) = name
        IN <<method, items[i]>>]

RECURSIVE CreateIdsSkipping(_, _, _)
CreateIdsSkipping(results, n, i) ==
    IF i >= n THEN <<>>
    ELSE LET v == DictGet(results, CmdKey(i))
         IN (IF Truthy(v) /\ IntOf(v).ok THEN <<Some(IntOf(v).n)>> ELSE <<>>)
            \o CreateIdsSkipping(results, n, i + 1)

RECURSIVE CreateIds(_, _, _)
\* batch_create lines 156-169: the slots for range(i, n)
CreateIds(results, n, i) ==
    IF i >= n THEN <<>>
    ELSE LET v == DictGet(results, CmdKey(i))
         IN <<IF Truthy(v) /\ IntOf(v).ok THEN Some(IntOf(v).n) ELSE NoneOpt>>
            \o CreateIds(results, n, i + 1)

\* batch_create lines 151-175, given what execute_batch returned
BatchCreateResult(results, n) ==
    IF results.rk # "map"
    THEN \* results.get raises AttributeError: [None] * len(items)
         [i \in 1..n |-> NoneOpt]
    ELSE CreateIds(results.m, n, 0)

\* batch_get_by_ids lines 104-107
GetCommands(method, entity_ids) ==
    [name \in {CmdKey(i - 1) : i \in 1..Len(entity_ids)} |->
        LET i == CHOOSE j \in 1..Len(entity_ids) : CmdKey(j - 1) = name
        IN <<method, entity_ids[i]>>]

\* what a processor may do with a raw result: return an entity, return None,
\* return a false value that is not None (0, an empty container), or raise
ProcessorOutcomes == {"entity", "none", "falsy", "raise"}
Processed(outcome, raw) == [kind |-> outcome, of |-> raw]

RECURSIVE GetEntities(_, _, _, _, _)
\* batch_get_by_ids lines 116-121: the loop from position i (1-based) on
GetEntities(entity_ids, results, processor, i, entities) ==
    IF i > Len(entity_ids) THEN [exc |-> FALSE, val |-> entities]
    ELSE LET result == DictGet(results, CmdKey(i - 1))
         IN IF ~Truthy(result)
            THEN GetEntities(entity_ids, results, processor, i + 1, entities)
            ELSE IF processor[result] = "raise"
            THEN [exc |-> TRUE, val |-> EmptyDict]
            ELSE IF processor[result] = "entity"
            THEN GetEntities(entity_ids, results, processor, i + 1,
                     DictSet(entities, entity_ids[i],
                             Processed(processor[result], result)))
            ELSE GetEntities(entity_ids, results, processor, i + 1, entities)

\* batch_get_by_ids lines 109-127, given what execute_batch returned
BatchGetByIdsIsolated(entity_ids, results, processor) ==
    IF results.rk # "map"
    THEN EmptyDict
    ELSE GetEntities(entity_ids, results.m,
                     [r \in DOMAIN processor |->
                         IF processor[r] = "raise" THEN "none" ELSE processor[r]],
                     1, EmptyDict).val
BatchGetByIdsResult(entity_ids, results, processor) ==
    IF results.rk # "map"
    THEN EmptyDict   \* results.get raises AttributeError: return {}
    ELSE LET r == GetEntities(entity_ids, results.m, processor, 1, EmptyDict)
         IN IF r.exc THEN EmptyDict ELSE r.val

\* raw results the remote puts under a key, per method
CreateRaws == {PyNone, PyInt(0), PyInt(7), PyStr(<<>>), PyStr(<<"4", "2">>),
               PyStr(<<"x">>), PyStr(<<"-", "1">>), PyDict(1)}
GetRaws == {PyNone, PyDict(0), PyDict(1), PyDict(2)}
ExecRaws == {PyNone, PyInt(7), PyDict(1)}
ExecKeys == {"a", "b"}
IdPool == {11, 12, 13}

SeqsUpTo(S, n) == UNION {[1..k -> S] : k \in 0..n}

BatchSend(payload) ==
    /\ b_pc' = "await"
    /\ b_requests' = Append(b_requests, payload)
    /\ UNCHANGED <<b_response, b_ret, b_raised>>

BatchReturn(response, value) ==
    /\ b_pc' = "done"
    /\ b_response' = response
    /\ b_ret' = value
    /\ b_raised' = FALSE
    /\ UNCHANGED <<b_op, b_commands, b_items, b_ids, b_processor, b_requests>>

\* execute_batch up to the await of call_batch
ExecuteBatchCall ==
    /\ b_pc = "idle"
    /\ \E keys \in SUBSET ExecKeys :
        \E commands \in [keys -> {<<"crm.deal.get", 1>>, <<"crm.deal.add", 2>>}] :
            /\ b_op' = "execute_batch"
            /\ b_commands' = commands
            /\ BatchSend(BatchCommands(commands))
    /\ UNCHANGED <<b_items, b_ids, b_processor>>
    /\ UNCHANGED notBatch

ExecuteBatchReturn ==
    /\ b_pc = "await" /\ b_op = "execute_batch"
    /\ \E response \in BatchResponses(ExecKeys \cup {"other"}, ExecRaws) :
        BatchReturn(response, ExecuteBatchResult(response))
    /\ UNCHANGED notBatch

\* batch_create up to the await inside execute_batch (or its early return)
BatchCreateCall ==
    /\ b_pc = "idle"
    /\ \E n \in 0..MaxBatch :
        LET items == [i \in 1..n |-> 100 + i]
            commands == CreateCommands("crm.deal.add", items)
        IN /\ b_op' = "batch_create"
           /\ b_items' = items
           /\ IF items = <<>>
              THEN /\ b_pc' = "done"
                   /\ b_ret' = <<>>
                   /\ UNCHANGED <<b_commands, b_requests, b_response, b_raised>>
              ELSE /\ b_commands' = commands
                   /\ BatchSend(BatchCommands(commands))
    /\ UNCHANGED <<b_ids, b_processor>>
    /\ UNCHANGED notBatch

BatchCreateReturn ==
    /\ b_pc = "await" /\ b_op = "batch_create"
    /\ \E response \in BatchResponses(DOMAIN b_commands, CreateRaws) :
        BatchReturn(response,
                    BatchCreateResult(ExecuteBatchResult(response), Len(b_items)))
    /\ UNCHANGED notBatch

\* batch_get_by_ids up to the await inside execute_batch (or its early return)
BatchGetByIdsCall ==
    /\ b_pc = "idle"
    /\ \E entity_ids \in SeqsUpTo(IdPool, MaxIds) :
        \E processor \in [{r \in GetRaws : Truthy(r)} -> ProcessorOutcomes] :
            LET commands == GetCommands("crm.deal.get", entity_ids)
            IN /\ b_op' = "batch_get_by_ids"
               /\ b_ids' = entity_ids
               /\ b_processor' = processor
               /\ IF entity_ids = <<>>
                  THEN /\ b_pc' = "done"
                       /\ b_ret' = EmptyDict
                       /\ UNCHANGED <<b_commands, b_requests, b_response, b_raised>>
                  ELSE /\ b_commands' = commands
                       /\ BatchSend(BatchCommands(commands))
    /\ UNCHANGED b_items
    /\ UNCHANGED notBatch

BatchGetByIdsReturn ==
    /\ b_pc = "await" /\ b_op = "batch_get_by_ids"
    /\ \E response \in BatchResponses(DOMAIN b_commands, GetRaws) :
        BatchReturn(response,
                    BatchGetByIdsResult(b_ids, ExecuteBatchResult(response),
                                        b_processor))
    /\ UNCHANGED notBatch

NextBatch ==
    \/ ExecuteBatchCall
    \/ ExecuteBatchReturn
    \/ BatchCreateCall
    \/ BatchCreateReturn
    \/ BatchGetByIdsCall
    \/ BatchGetByIdsReturn

(***************************************************************************)
(* BaseMixin._safe_call and the shapes of a remote response                *)
(***************************************************************************)
\* what self._bitrix.call may do: raise, or return None, 0, another number,
\* a str or a list (without / with "result" in it), {}, a mapping without
\* "result", or a mapping with "result" (the envelope)
CallKinds == {"raise", "none", "zero", "num", "str", "str_has", "list",
              "list_has", "empty_dict", "noenv", "env"}

\* every response whose envelope carries one of results
CallResponses(results, dummy) ==
    {[kind |-> k, result |-> dummy] : k \in CallKinds \ {"env"}}
    \cup {[kind |-> "env", result |-> r] : r \in results}

\* base.py 55-88: any exception of the call becomes default_value
SafeCall(response, default_kind) ==
    IF response.kind = "raise" THEN [response EXCEPT !.kind = default_kind]
    ELSE response

\* "not response or 'result' not in response": the response is malformed, the
\* envelope is present, or the membership test itself raises TypeError
EnvelopeTest(r) ==
    CASE r.kind \in {"none", "zero", "empty_dict"} -> "malformed"
      [] r.kind = "num" -> "TypeError"
      [] r.kind \in {"str", "list", "noenv"} -> "malformed"
      [] OTHER -> "present"

\* response.get exists on mappings only (AttributeError otherwise)
HasGet(r) == r.kind \in {"empty_dict", "noenv", "env"}

Returned(v) == [raised |-> FALSE, val |-> v]
Raised(v) == [raised |-> TRUE, val |-> v]

(***************************************************************************)
(* BitrixReadMixin                                                         *)
(***************************************************************************)
\* a raw record of the remote: a mapping from_bitrix accepts ("good"), a
\* mapping it raises on, e.g. one without "ID" ("bad_dict"), a true value
\* that is no mapping ("nondict"), None, or {}
Rec(kind, id) == [rec |-> kind, id |-> id]
RecTruthy(data) == data.rec \notin {"none", "empty"}

NoEntity == [some |-> FALSE, id |-> 0, contact_ids |-> <<>>]
Entity(id, contact_ids) == [some |-> TRUE, id |-> id, contact_ids |-> contact_ids]

\* read.py 155-174: the entity, None when from_bitrix raises, and the
\* AttributeError of data.get("ID", ...) inside the handler when data is no
\* mapping
ProcessEntity(data) ==
    CASE data.rec = "good" -> [exc |-> FALSE, val |-> Entity(data.id, <<>>)]
      [] data.rec = "bad_dict" -> [exc |-> FALSE, val |-> NoEntity]
      [] OTHER -> [exc |-> TRUE, val |-> NoEntity]

\* read.py 33-66
GetByIdUncaught(response) ==
    IF response.kind = "raise" THEN Raised(NoEntity)
    ELSE IF response.kind = "env" /\ response.result.rec = "good"
    THEN Returned(Entity(response.result.id, <<>>))
    ELSE Returned(NoEntity)
GetById(response) ==
    LET r == SafeCall(response, "none")
    IN IF EnvelopeTest(r) # "present" THEN Returned(NoEntity)
       ELSE IF ~HasGet(r) THEN Returned(NoEntity)
       ELSE IF ~RecTruthy(r.result) THEN Returned(NoEntity)
       ELSE IF ProcessEntity(r.result).exc THEN Returned(NoEntity)
       ELSE Returned(ProcessEntity(r.result).val)

\* the value under "result" of a listing: a list of raw records, or no list
RecList(recs) == [islist |-> TRUE, recs |-> recs]
NoRecList == [islist |-> FALSE, recs |-> <<>>]

RECURSIVE ProcessAll(_)
\* read.py 119-124: the entities of the records, in order
ProcessAll(recs) ==
    IF recs = <<>> THEN <<>>
    ELSE (IF ProcessEntity(Head(recs)).val.some
          THEN <<ProcessEntity(Head(recs)).val>> ELSE <<>>)
         \o ProcessAll(Tail(recs))

\* read.py 91-129, given the response of the listing call
ListEntitiesUncut(response, limit) ==
    LET r == SafeCall(response, "empty_dict")
    IN IF ~HasGet(r) THEN Returned(<<>>)
       ELSE IF r.kind # "env" THEN Returned(<<>>)
       ELSE IF ~r.result.islist THEN Returned(<<>>)
       ELSE IF \E i \in 1..Len(r.result.recs) : ProcessEntity(r.result.recs[i]).exc
       THEN Returned(<<>>)
       ELSE Returned(ProcessAll(r.result.recs))
ListEntities(response, limit) ==
    LET r == SafeCall(response, "empty_dict")
    IN IF ~HasGet(r) THEN Returned(<<>>)
       ELSE IF r.kind # "env" THEN Returned(<<>>)
       ELSE IF ~r.result.islist THEN Returned(<<>>)
       ELSE LET results == Slice(Slice(r.result.recs, limit), limit)
            IN IF \E i \in 1..Len(results) : ProcessEntity(results[i]).exc
               THEN Returned(<<>>)
               ELSE Returned(ProcessAll(results))

\* read.py 92-105: the params of the listing call
ListParams(filter_params, select_fields, order, start) ==
    [k \in {"start", "select"}
           \cup (IF filter_params # "" THEN {"filter"} ELSE {})
           \cup (IF order # "" THEN {"order"} ELSE {}) |->
        CASE k = "start" -> PyInt(start)
          [] k = "filter" -> PyDictOf(filter_params)
          [] k = "select" -> PyStrList(IF select_fields # <<>> THEN select_fields
                                       ELSE <<"*", "UF_*">>)
          [] OTHER -> PyDictOf(order)]

\* read.py 131-153: not wrapped in try/except
GetFields(response) ==
    LET r == SafeCall(response, "none")
    IN CASE EnvelopeTest(r) = "TypeError" -> Raised(PyDict(0))
         [] EnvelopeTest(r) = "malformed" -> Returned(PyDict(0))
         [] OTHER -> IF HasGet(r) THEN Returned(r.result) ELSE Raised(PyDict(0))

(***************************************************************************)
(* BitrixWriteMixin                                                        *)
(***************************************************************************)
\* write.py 29-74
CreateUnchecked(response) ==
    LET r == SafeCall(response, "none")
    IN IF EnvelopeTest(r) # "present" \/ ~HasGet(r) THEN Returned(NoneOpt)
       ELSE IF ~Truthy(r.result) THEN Returned(NoneOpt)
       ELSE Returned(Some(IntOf(r.result).n))
Create(response) ==
    LET r == SafeCall(response, "none")
    IN IF EnvelopeTest(r) # "present" \/ ~HasGet(r) THEN Returned(NoneOpt)
       ELSE IF ~Truthy(r.result) THEN Returned(NoneOpt)
       ELSE IF IntOf(r.result).ok THEN Returned(Some(IntOf(r.result).n))
       ELSE Returned(NoneOpt)

\* write.py 76-178: update, update_fields and delete
SuccessFlagPresent(response) ==
    LET r == SafeCall(response, "none")
    IN IF EnvelopeTest(r) # "present" \/ ~HasGet(r) THEN Returned(FALSE)
       ELSE Returned(TRUE)
SuccessFlag(response) ==
    LET r == SafeCall(response, "none")
    IN IF EnvelopeTest(r) # "present" \/ ~HasGet(r) THEN Returned(FALSE)
       ELSE Returned(Truthy(r.result))

(***************************************************************************)
(* BitrixRelationshipMixin: none of its methods is wrapped in try/except   *)
(***************************************************************************)
\* relationship.py 24-98: add_relationship and remove_relationship
LinkFlag(response) ==
    LET r == SafeCall(response, "empty_dict")
    IN CASE EnvelopeTest(r) = "TypeError" -> Raised(FALSE)
         [] EnvelopeTest(r) = "malformed" -> Returned(FALSE)
         [] OTHER -> IF HasGet(r) THEN Returned(Truthy(r.result)) ELSE Raised(FALSE)

\* relationship.py 100-132
GetRelatedItems(response) ==
    LET r == SafeCall(response, "empty_dict")
    IN CASE EnvelopeTest(r) = "TypeError" -> Raised(NoRecList)
         [] EnvelopeTest(r) = "malformed" -> Returned(RecList(<<>>))
         [] OTHER -> IF HasGet(r) THEN Returned(r.result) ELSE Raised(NoRecList)

(***************************************************************************)
(* BitrixDealRepository.get_by_id with BitrixContactRepository's hydration *)
(***************************************************************************)
\* Deal.from_bitrix(deal_data, contact_ids) inside get_by_id's try
\* (bitrix_deal_repository.py 105-108)
DealFromBitrix(deal_data, contact_ids) ==
    IF deal_data.rec = "good" THEN Entity(deal_data.id, contact_ids) ELSE NoEntity

\* bitrix_deal_repository.py 88-98: the deal data of the first response;
\* ok = FALSE when b_response.get raises
DealData(response) ==
    LET r == SafeCall(response, "empty_dict")
    IN IF ~HasGet(r) THEN [ok |-> FALSE, data |-> Rec("none", 0)]
       ELSE IF r.kind = "env" THEN [ok |-> TRUE, data |-> r.result]
       ELSE [ok |-> TRUE, data |-> Rec("empty", 0)]

\* bitrix_contact_repository.py 150-167: the contact ids of the link
\* records; <<>> when get_deal_contacts returns [] before any listing
LinkedContactIdsFirst(response) ==
    LET out == GetRelatedItems(response)
    IN IF out.raised \/ ~out.val.islist THEN <<>>
       ELSE IF \E i \in 1..Len(out.val.recs) : out.val.recs[i].rec # "good" THEN <<>>
       ELSE [i \in 1..Min(1, Len(out.val.recs)) |-> out.val.recs[i].id]
LinkedContactIds(response) ==
    LET out == GetRelatedItems(response)
    IN IF out.raised \/ ~out.val.islist THEN <<>>
       ELSE IF \E i \in 1..Len(out.val.recs) : out.val.recs[i].rec # "good" THEN <<>>
       ELSE [i \in 1..Len(out.val.recs) |-> out.val.recs[i].id]

\* bitrix_deal_repository.py 131-146: the params of the deal listing call,
\* with the default order {"DATE_CREATE": "DESC"}
DealListParams(filter_params, select_fields, order, start) ==
    [k \in {"start", "select", "order"}
           \cup (IF filter_params # "" THEN {"filter"} ELSE {}) |->
        CASE k = "start" -> PyInt(start)
          [] k = "filter" -> PyDictOf(filter_params)
          [] k = "select" -> PyStrList(IF select_fields # <<>> THEN select_fields
                                       ELSE <<"*", "UF_*">>)
          [] OTHER -> PyDictOf(IF order # "" THEN order ELSE "DATE_CREATE DESC")]

\* bitrix_deal_repository.py 148-158: results[:limit] of the listing
\* response; ok = FALSE when the outer except returns []
DealListResults(response, limit) ==
    LET r == SafeCall(response, "empty_dict")
    IN IF ~HasGet(r) THEN [ok |-> FALSE, recs |-> <<>>]
       ELSE IF r.kind # "env" THEN [ok |-> TRUE, recs |-> <<>>]
       ELSE IF ~r.result.islist THEN [ok |-> FALSE, recs |-> <<>>]
       ELSE [ok |-> TRUE, recs |-> Slice(r.result.recs, limit)]

\* what get_deal_contacts gives for one deal: the ids of its contacts
HydrationOutcomes == {<<>>, <<21>>, <<21, 22>>}

(***************************************************************************)
(* The capability methods as steps between remote calls.                   *)
(***************************************************************************)
EntityIds == {21, 22}
GetResults == {Rec("none", 0), Rec("empty", 0), Rec("good", 21),
               Rec("bad_dict", 0), Rec("nondict", 0)}
ListRecs == {Rec("good", 21), Rec("good", 22), Rec("bad_dict", 0), Rec("nondict", 0)}
ListResults == {NoRecList} \cup {RecList(recs) : recs \in SeqsUpTo(ListRecs, MaxRecords)}
LinkRecs == {Rec("good", 21), Rec("good", 22), Rec("bad_dict", 0)}
LinkResults == {NoRecList} \cup {RecList(recs) : recs \in SeqsUpTo(LinkRecs, MaxLinks)}
FieldsResults == {PyNone, PyDict(0), PyDict(2)}
PartialFields == {"TITLE", "TITLE STAGE_ID"}
FlagRaws == {PyNone, PyBool(FALSE), PyBool(TRUE), PyInt(0), PyStr(<<"x">>)}

\* await self._bitrix.call(method, params)
CapSend(op, args, method, prm, pc) ==
    /\ c_op' = op
    /\ c_args' = args
    /\ c_pc' = pc
    /\ c_requests' = Append(c_requests, [method |-> method, params |-> prm])
    /\ UNCHANGED <<c_ret, c_raised>>
    /\ UNCHANGED notCap

\* the method returns (or raises)
CapFinish(response, out) ==
    /\ c_pc' = "done"
    /\ c_responses' = Append(c_responses, response)
    /\ c_ret' = out.val
    /\ c_raised' = out.raised
    /\ UNCHANGED <<c_op, c_args, c_local, c_requests>>
    /\ UNCHANGED notCap

GetByIdCall ==
    /\ c_pc = "idle"
    /\ \E entity_id \in EntityIds :
        CapSend("get_by_id", [entity_id |-> entity_id], "get",
                [ID |-> entity_id], "await")
    /\ UNCHANGED <<c_local, c_responses>>

GetByIdReturn ==
    /\ c_pc = "await" /\ c_op = "get_by_id"
    /\ \E response \in CallResponses(GetResults, Rec("none", 0)) :
        CapFinish(response, GetById(response))

ListEntitiesCall ==
    /\ c_pc = "idle"
    /\ \E filter_params \in {"", "f"}, select_fields \in {<<>>, <<"ID">>},
          order \in {"", "o"}, limit \in (0 - 1)..MaxLimit :
        CapSend("list_entities",
                [filter_params |-> filter_params, select_fields |-> select_fields,
                 order |-> order, start |-> 0, limit |-> limit],
                "list", ListParams(filter_params, select_fields, order, 0), "await")
    /\ UNCHANGED <<c_local, c_responses>>

ListEntitiesReturn ==
    /\ c_pc = "await" /\ c_op = "list_entities"
    /\ \E response \in CallResponses(ListResults, NoRecList) :
        CapFinish(response, ListEntities(response, c_args.limit))

\* BitrixDealRepository.list_entities up to the await of the listing
DealListEntitiesCall ==
    /\ c_pc = "idle"
    /\ \E filter_params \in {"", "f"}, select_fields \in {<<>>, <<"ID">>},
          order \in {"", "o"}, limit \in (0 - 1)..MaxLimit :
        CapSend("deal_list_entities",
                [filter_params |-> filter_params, select_fields |-> select_fields,
                 order |-> order, start |-> 0, limit |-> limit],
                "crm.deal.list",
                DealListParams(filter_params, select_fields, order, 0), "await")
    /\ UNCHANGED <<c_local, c_responses>>

\* the page arrives: return, or start the loop over results[:limit]
DealListEntitiesPage ==
    /\ c_pc = "await" /\ c_op = "deal_list_entities"
    /\ \E response \in CallResponses(ListResults, NoRecList) :
        LET page == DealListResults(response, c_args.limit)
        IN IF ~page.ok \/ page.recs = <<>>
           THEN CapFinish(response, Returned(<<>>))
           ELSE /\ c_pc' = "hydrate"
                /\ c_responses' = Append(c_responses, response)
                /\ c_local' = [results |-> page.recs, deals |-> <<>>]
                /\ UNCHANGED <<c_op, c_args, c_requests, c_ret, c_raised>>
                /\ UNCHANGED notCap

\* one round of the loop (bitrix_deal_repository.py 159-178): a record that
\* is no mapping makes the handler's deal_data.get raise, and the outer
\* except returns []; a mapping without a usable ID is skipped; otherwise
\* get_deal_contacts is awaited and the deal is built with the ids it gave
DealListEntitiesDeal ==
    /\ c_pc = "hydrate"
    /\ LET deal_data == Head(c_local.results)
           rest == Tail(c_local.results)
           step(deals, requests) ==
               /\ c_requests' = requests
               /\ IF rest = <<>>
                  THEN c_pc' = "done" /\ c_ret' = deals /\ c_local' = c_local
                  ELSE /\ c_pc' = "hydrate" /\ c_ret' = c_ret
                       /\ c_local' = [results |-> rest, deals |-> deals]
       IN CASE deal_data.rec = "nondict" ->
                 /\ c_pc' = "done" /\ c_ret' = <<>>
                 /\ UNCHANGED <<c_local, c_requests>>
            [] deal_data.rec = "good" ->
                 \E contact_ids \in HydrationOutcomes :
                     step(Append(c_local.deals, Entity(deal_data.id, contact_ids)),
                          Append(c_requests,
                                 [method |-> "crm.deal.contact.items.get",
                                  params |-> [ID |-> deal_data.id]]))
            [] OTHER -> step(c_local.deals, c_requests)
    /\ UNCHANGED <<c_op, c_args, c_responses, c_raised>>
    /\ UNCHANGED notCap

GetFieldsCall ==
    /\ c_pc = "idle"
    /\ CapSend("get_fields", EmptyDict, "fields", EmptyDict, "await")
    /\ UNCHANGED <<c_local, c_responses>>

GetFieldsReturn ==
    /\ c_pc = "await" /\ c_op = "get_fields"
    /\ \E response \in CallResponses(FieldsResults, PyNone) :
        CapFinish(response, GetFields(response))

CreateCall ==
    /\ c_pc = "idle"
    /\ \E entity \in EntityIds :
        CapSend("create", [entity |-> entity], "create",
                [fields |-> [to_bitrix |-> entity]], "await")
    /\ UNCHANGED <<c_local, c_responses>>

CreateReturn ==
    /\ c_pc = "await" /\ c_op = "create"
    /\ \E response \in CallResponses(CreateRaws, PyNone) :
        CapFinish(response, Create(response))

\* update, update_fields and delete
WriteFlagCall ==
    /\ c_pc = "idle"
    /\ \E entity_id \in EntityIds :
        \/ CapSend("update", [entity_id |-> entity_id, entity |-> entity_id],
                   "update", [ID |-> entity_id, fields |-> [to_bitrix |-> entity_id]],
                   "await")
        \/ \E fields \in PartialFields :
             CapSend("update_fields", [entity_id |-> entity_id, fields |-> fields],
                     "update", [ID |-> entity_id, fields |-> fields], "await")
        \/ CapSend("delete", [entity_id |-> entity_id], "delete",
                   [ID |-> entity_id], "await")
    /\ UNCHANGED <<c_local, c_responses>>

WriteFlagReturn ==
    /\ c_pc = "await" /\ c_op \in {"update", "update_fields", "delete"}
    /\ \E response \in CallResponses(FlagRaws, PyNone) :
        CapFinish(response, SuccessFlag(response))

\* add_relationship and remove_relationship
LinkFlagCall ==
    /\ c_pc = "idle"
    /\ \E op \in {"add_relationship", "remove_relationship"},
          entity_id \in EntityIds, related_id \in EntityIds :
        CapSend(op, [entity_id |-> entity_id, related_id |-> related_id],
                op, [ID |-> entity_id, fields |-> [CONTACT_ID |-> related_id]],
                "await")
    /\ UNCHANGED <<c_local, c_responses>>

LinkFlagReturn ==
    /\ c_pc = "await" /\ c_op \in {"add_relationship", "remove_relationship"}
    /\ \E response \in CallResponses(FlagRaws, PyNone) :
        CapFinish(response, LinkFlag(response))

GetRelatedItemsCall ==
    /\ c_pc = "idle"
    /\ \E entity_id \in EntityIds :
        CapSend("get_related_items", [entity_id |-> entity_id],
                "items.get", [ID |-> entity_id], "await")
    /\ UNCHANGED <<c_local, c_responses>>

GetRelatedItemsReturn ==
    /\ c_pc = "await" /\ c_op = "get_related_items"
    /\ \E response \in CallResponses(LinkResults, NoRecList) :
        CapFinish(response, GetRelatedItems(response))

\* BitrixDealRepository.get_by_id up to the await of crm.deal.get
DealGetByIdCall ==
    /\ c_pc = "idle"
    /\ \E entity_id \in EntityIds :
        CapSend("deal_get_by_id", [entity_id |-> entity_id], "crm.deal.get",
                [ID |-> entity_id], "await")
    /\ UNCHANGED <<c_local, c_responses>>

\* the deal arrives: return None, or go on to get_deal_contacts, whose
\* get_related_items awaits crm.deal.contact.items.get
DealGetByIdDeal ==
    /\ c_pc = "await" /\ c_op = "deal_get_by_id"
    /\ \E response \in CallResponses(GetResults, Rec("none", 0)) :
        LET d == DealData(response)
        IN IF ~d.ok \/ ~RecTruthy(d.data)
           THEN CapFinish(response, Returned(NoEntity))
           ELSE /\ c_responses' = Append(c_responses, response)
                /\ c_local' = [deal_data |-> d.data, contact_ids |-> <<>>]
                /\ CapSend(c_op, c_args, "crm.deal.contact.items.get",
                           [ID |-> c_args.entity_id], "await_links")

\* the link records arrive: build the deal without contacts, or go on to
\* _load_contacts_by_ids, whose list_entities awaits the contact listing
DealGetByIdLinks ==
    /\ c_pc = "await_links"
    /\ \E response \in CallResponses(LinkResults, NoRecList) :
        LET contact_ids == LinkedContactIds(response)
        IN IF contact_ids = <<>>
           THEN CapFinish(response,
                          Returned(DealFromBitrix(c_local.deal_data, <<>>)))
           ELSE /\ c_responses' = Append(c_responses, response)
                /\ c_local' = [c_local EXCEPT !.contact_ids = contact_ids]
                /\ CapSend(c_op, c_args, "list",
                           [start |-> 0, filter |-> contact_ids,
                            limit |-> Len(contact_ids)], "await_contacts")

\* the contacts arrive: the deal is built with the ids of the contacts read
DealGetByIdContacts ==
    /\ c_pc = "await_contacts"
    /\ \E response \in CallResponses(ListResults, NoRecList) :
        LET contacts == ListEntities(response, Len(c_local.contact_ids)).val
        IN CapFinish(response,
               Returned(DealFromBitrix(c_local.deal_data,
                            [i \in 1..Len(contacts) |-> contacts[i].id])))

\* bitrix_contact_repository.py 185-193 with read.py 92-105: the params of
\* the listing call _load_contacts_by_ids makes
LoadContactsParams(contact_ids) ==
    [start |-> 0, select |-> <<"*", "UF_*">>,
     filter |-> [ID |-> contact_ids, CHECK_PERMISSIONS |-> "N"]]

\* BitrixContactRepository.get_deal_contacts up to the await inside
\* get_related_items
GetDealContactsCall ==
    /\ c_pc = "idle"
    /\ \E deal_id \in EntityIds :
        CapSend("get_deal_contacts", [deal_id |-> deal_id],
                "crm.deal.contact.items.get", [ID |-> deal_id], "await")
    /\ UNCHANGED <<c_local, c_responses>>

\* the link records arrive: return [], or go on to _load_contacts_by_ids,
\* whose list_entities awaits the contact listing
GetDealContactsLinks ==
    /\ c_pc = "await" /\ c_op = "get_deal_contacts"
    /\ \E response \in CallResponses(LinkResults, NoRecList) :
        LET contact_ids == LinkedContactIds(response)
        IN IF contact_ids = <<>>
           THEN CapFinish(response, Returned(<<>>))
           ELSE /\ c_responses' = Append(c_responses, response)
                /\ c_local' = [contact_ids |-> contact_ids]
                /\ CapSend(c_op, c_args, "list",
                           LoadContactsParams(contact_ids), "await_loaded")

\* the contacts arrive: list_entities with limit = len(contact_ids)
GetDealContactsLoaded ==
    /\ c_pc = "await_loaded"
    /\ \E response \in CallResponses(ListResults, NoRecList) :
        CapFinish(response, ListEntities(response, Len(c_local.contact_ids)))

NextCap ==
    \/ GetDealContactsCall \/ GetDealContactsLinks \/ GetDealContactsLoaded
    \/ GetByIdCall \/ GetByIdReturn
    \/ ListEntitiesCall \/ ListEntitiesReturn
    \/ GetFieldsCall \/ GetFieldsReturn
    \/ CreateCall \/ CreateReturn
    \/ WriteFlagCall \/ WriteFlagReturn
    \/ LinkFlagCall \/ LinkFlagReturn
    \/ GetRelatedItemsCall \/ GetRelatedItemsReturn
    \/ DealGetByIdCall \/ DealGetByIdDeal \/ DealGetByIdLinks \/ DealGetByIdContacts
    \/ DealListEntitiesCall \/ DealListEntitiesPage \/ DealListEntitiesDeal

(***************************************************************************)
(* Entity model: BitrixEntity and Contact, Deal, SmartProcess.  Strings    *)
(* are made of decimal digits, "x" and ","; a float is written by the      *)
(* integer it equals; a mapping held as a value is named by a token.       *)
(***************************************************************************)
EntityTypes == {"Contact", "Deal", "SmartProcess"}

\* _bitrix_field_mapping of each class: wire key -> attribute
ContactMapping ==
    [k \in {"ID", "NAME", "LAST_NAME", "SECOND_NAME", "COMPANY_ID",
            "ASSIGNED_BY_ID", "CREATED_BY_ID", "MODIFY_BY_ID", "DATE_CREATE",
            "DATE_MODIFY"} |->
        CASE k = "ID" -> "id" [] k = "NAME" -> "name"
          [] k = "LAST_NAME" -> "last_name" [] k = "SECOND_NAME" -> "second_name"
          [] k = "COMPANY_ID" -> "company_id"
          [] k = "ASSIGNED_BY_ID" -> "assigned_by_id"
          [] k = "CREATED_BY_ID" -> "created_by_id"
          [] k = "MODIFY_BY_ID" -> "modified_by_id"
          [] k = "DATE_CREATE" -> "date_create" [] OTHER -> "date_modify"]

DealMapping ==
    [k \in {"ID", "TITLE", "STAGE_ID", "COMPANY_ID", "OPPORTUNITY", "CURRENCY_ID",
            "ASSIGNED_BY_ID", "CREATED_BY_ID", "MODIFY_BY_ID", "DATE_CREATE",
            "DATE_MODIFY", "CATEGORY_ID"} |->
        CASE k = "ID" -> "id" [] k = "TITLE" -> "title"
          [] k = "STAGE_ID" -> "stage_id" [] k = "COMPANY_ID" -> "company_id"
          [] k = "OPPORTUNITY" -> "opportunity" [] k = "CURRENCY_ID" -> "currency_id"
          [] k = "ASSIGNED_BY_ID" -> "assigned_by_id"
          [] k = "CREATED_BY_ID" -> "created_by_id"
          [] k = "MODIFY_BY_ID" -> "modified_by_id"
          [] k = "DATE_CREATE" -> "date_create" [] k = "DATE_MODIFY" -> "date_modify"
          [] OTHER -> "category_id"]

SmartProcessMapping ==
    [k \in {"ID", "TITLE", "STAGE_ID", "COMPANY_ID", "ASSIGNED_BY_ID",
            "CREATED_BY_ID", "MODIFY_BY_ID", "DATE_CREATE", "DATE_MODIFY",
            "TYPE_ID"} |->
        CASE k = "ID" -> "id" [] k = "TITLE" -> "title"
          [] k = "STAGE_ID" -> "stage_id" [] k = "COMPANY_ID" -> "company_id"
          [] k = "ASSIGNED_BY_ID" -> "assigned_by_id"
          [] k = "CREATED_BY_ID" -> "created_by_id"
          [] k = "MODIFY_BY_ID" -> "modified_by_id"
          [] k = "DATE_CREATE" -> "date_create" [] k = "DATE_MODIFY" -> "date_modify"
          [] OTHER -> "type_id"]

bitrix_field_mapping(type) ==
    CASE type = "Contact" -> ContactMapping
      [] type = "Deal" -> DealMapping
      [] OTHER -> SmartProcessMapping

\* the dataclass field defaults of the mapped attributes; id has none
FieldDefault(attr) ==
    CASE attr \in {"name", "last_name", "second_name", "title", "stage_id",
                   "currency_id"} -> PyStr(<<>>)
      [] attr = "opportunity" -> PyFloat(0)
      [] attr \in {"category_id", "type_id"} -> PyInt(0)
      [] OTHER -> PyNone

\* the contact_ids attribute: a list of ids or, before coercion, a str; the
\* argument of from_bitrix may also be None
ContactIdsNone == [kind |-> "none", ids |-> <<>>, s |-> <<>>]
ContactIdsList(ids) == [kind |-> "list", ids |-> ids, s |-> <<>>]
ContactIdsStr(chars) == [kind |-> "str", ids |-> <<>>, s |-> chars]

\* int(v) if v is a str of digits, else v unchanged
DigitToInt(v) ==
    IF v.t = "str" /\ IsDigit(v.s) THEN PyInt(DigitsValue(v.s)) ELSE v

\* a company_id coercion that nulls everything but a str of digits
IdOrNoneElseNone(v) ==
    IF v.t = "str" /\ IsDigit(v.s) THEN PyInt(DigitsValue(v.s)) ELSE PyNone

\* a company_id coercion that leaves a non-digit str in place
IdOrNoneKeep(v) ==
    IF v.t = "str" /\ IsDigit(v.s) THEN PyInt(DigitsValue(v.s)) ELSE v

\* company_id: a str becomes its integer or None
IdOrNone(v) ==
    IF v.t # "str" THEN v
    ELSE IF IsDigit(v.s) THEN PyInt(DigitsValue(v.s)) ELSE PyNone

\* opportunity: float(str), 0.0 on ValueError
FloatOrZero(v) ==
    IF v.t # "str" THEN v
    ELSE IF IsDigit(Strip(v.s)) THEN PyFloat(DigitsValue(Strip(v.s))) ELSE PyFloat(0)

RECURSIVE Split(_)
\* chars.split(",")
Split(chars) ==
    IF \A i \in 1..Len(chars) : chars[i] # "," THEN <<chars>>
    ELSE LET i == CHOOSE j \in 1..Len(chars) :
                      chars[j] = "," /\ \A h \in 1..(j - 1) : chars[h] # ","
         IN <<SubSeq(chars, 1, i - 1)>> \o Split(SubSeq(chars, i + 1, Len(chars)))

RECURSIVE DigitTokens(_)
\* [int(iid) for iid in tokens if iid.isdigit()]
DigitTokens(tokens) ==
    IF tokens = <<>> THEN <<>>
    ELSE (IF IsDigit(Head(tokens)) THEN <<DigitsValue(Head(tokens))>> ELSE <<>>)
         \o DigitTokens(Tail(tokens))

\* contact_ids: a str becomes the list of its digit tokens
SplitIds(c) ==
    IF c.kind = "str" THEN ContactIdsList(DigitTokens(Split(c.s))) ELSE c

\* Contact._convert_types
ContactConvertTypes(e) ==
    [e EXCEPT !.attrs = [@ EXCEPT !["id"] = DigitToInt(@),
                                  !["company_id"] = IdOrNone(@),
                                  !["assigned_by_id"] = DigitToInt(@),
                                  !["created_by_id"] = DigitToInt(@),
                                  !["modified_by_id"] = DigitToInt(@)]]

\* Deal._convert_types
DealConvertTypes(e) ==
    [e EXCEPT !.attrs = [@ EXCEPT !["id"] = DigitToInt(@),
                                  !["company_id"] = IdOrNone(@),
                                  !["opportunity"] = FloatOrZero(@),
                                  !["assigned_by_id"] = DigitToInt(@),
                                  !["created_by_id"] = DigitToInt(@),
                                  !["modified_by_id"] = DigitToInt(@),
                                  !["category_id"] = DigitToInt(@)],
              !.contact_ids = SplitIds(@)]

\* SmartProcess._convert_types
SmartProcessConvertTypes(e) ==
    [e EXCEPT !.attrs = [@ EXCEPT !["id"] = DigitToInt(@),
                                  !["type_id"] = DigitToInt(@),
                                  !["company_id"] = IdOrNone(@),
                                  !["assigned_by_id"] = DigitToInt(@),
                                  !["created_by_id"] = DigitToInt(@),
                                  !["modified_by_id"] = DigitToInt(@)],
              !.contact_ids = SplitIds(@)]

ConvertTypes(type, e) ==
    CASE type = "Contact" -> ContactConvertTypes(e)
      [] type = "Deal" -> DealConvertTypes(e)
      [] OTHER -> SmartProcessConvertTypes(e)

NoEntityBuilt ==
    [attrs |-> EmptyDict, additional_fields |-> EmptyDict,
     contact_ids |-> ContactIdsList(<<>>), email |-> <<>>, phone |-> <<>>]

\* the key under which a raw response wraps the record
order_key == "order0000000000"

\* the mappings a payload may hold under order_key, by token
OrderTokens == {"order_id", "order_custom", "order_noid"}
OrderData(token) ==
    CASE token = "order_id" -> [k \in {"ID"} |-> PyInt(8)]
      [] token = "order_custom" ->
            [k \in {"ID", "CUSTOM_X"} |->
                IF k = "ID" THEN PyStr(<<"4", "2">>) ELSE PyStr(<<"x">>)]
      [] OTHER -> [k \in {"NAME"} |-> PyStr(<<"x">>)]

\* base_entity.py 35-36: "if order_data := data.get(order_key): data =
\* order_data"; ok = FALSE when the true value is no mapping, so that the
\* key tests and data.items() that follow raise
Unwrap(data) ==
    IF order_key \in DOMAIN data /\ Truthy(data[order_key])
    THEN IF data[order_key].t = "dict"
         THEN [ok |-> TRUE, data |-> OrderData(data[order_key].s[1])]
         ELSE [ok |-> FALSE, data |-> EmptyDict]
    ELSE [ok |-> TRUE, data |-> data]

\* BitrixEntity.from_bitrix: the record under order_key replaces data; the
\* mapped keys present in data become attributes, the other keys
\* additional_fields, and cls(**entity_data) raises TypeError when data has
\* no "ID"; attributes not given keep their defaults
BaseFromBitrix(type, payload) ==
    LET mapping == bitrix_field_mapping(type)
        data == Unwrap(payload).data
        present == (DOMAIN mapping) \cap (DOMAIN data)
        wire_of(attr) == CHOOSE k \in DOMAIN mapping : mapping[k] = attr
    IN IF ~Unwrap(payload).ok \/ "ID" \notin present
       THEN [exc |-> TRUE, entity |-> NoEntityBuilt]
       ELSE [exc |-> FALSE,
             entity |->
               [attrs |-> [attr \in {mapping[k] : k \in DOMAIN mapping} |->
                              IF wire_of(attr) \in present THEN data[wire_of(attr)]
                              ELSE FieldDefault(attr)],
                additional_fields |-> [k \in (DOMAIN data) \ (DOMAIN mapping) |-> data[k]],
                contact_ids |-> ContactIdsList(<<>>),
                email |-> <<>>, phone |-> <<>>]]

\* contact.py 57-67: [BitrixMultiField.from_bitrix(d) for d in data[key]],
\* each multi-field named by the token of its wire mapping; ok = FALSE when
\* the value cannot be iterated into mappings (None, a number, a text)
MultiFields(v) ==
    CASE v.t = "list" -> [ok |-> TRUE, items |-> v.s]
      [] (v.t = "str" /\ v.s = <<>>) \/ (v.t = "dict" /\ v.n = 0) ->
            [ok |-> TRUE, items |-> <<>>]
      [] OTHER -> [ok |-> FALSE, items |-> <<>>]

\* the email / phone attribute after Contact.from_bitrix read key of data
MultiAttr(data, key, default) ==
    IF key \in DOMAIN data THEN MultiFields(data[key])
    ELSE [ok |-> TRUE, items |-> default]

\* Contact.from_bitrix(data), Deal.from_bitrix(data, contact_ids) and
\* SmartProcess.from_bitrix(data, contact_ids); EMAIL and PHONE are looked
\* up in the data as passed, not in the record under order_key
FromBitrix(type, data, contact_ids) ==
    LET built == BaseFromBitrix(type, data)
        email == MultiAttr(data, "EMAIL", built.entity.email)
        phone == MultiAttr(data, "PHONE", built.entity.phone)
        linked == IF type = "Contact"
                  THEN [built.entity EXCEPT !.email = email.items,
                                           !.phone = phone.items]
                  ELSE IF contact_ids.kind # "none"
                  THEN [built.entity EXCEPT !.contact_ids = contact_ids]
                  ELSE built.entity
    IN IF built.exc THEN built
       ELSE IF type = "Contact" /\ (~email.ok \/ ~phone.ok)
       THEN [exc |-> TRUE, entity |-> NoEntityBuilt]
       ELSE [exc |-> FALSE, entity |-> ConvertTypes(type, linked)]

\* a to_bitrix in which the mapped attributes win over additional_fields
ToBitrixMappedWin(type, e) ==
    [k \in (DOMAIN bitrix_field_mapping(type)) \cup (DOMAIN e.additional_fields) |->
        IF k \in DOMAIN bitrix_field_mapping(type)
        THEN e.attrs[bitrix_field_mapping(type)[k]]
        ELSE e.additional_fields[k]]

\* a to_bitrix that forgets to merge additional_fields
ToBitrixMappedOnly(type, e) ==
    [k \in DOMAIN bitrix_field_mapping(type) |-> e.attrs[bitrix_field_mapping(type)[k]]]

\* a to_bitrix that leaves out the attributes still at their default
ToBitrixSetOnly(type, e) ==
    LET mapping == bitrix_field_mapping(type)
        set == {k \in DOMAIN mapping : e.attrs[mapping[k]] # FieldDefault(mapping[k])}
    IN [k \in set \cup (DOMAIN e.additional_fields) |->
            IF k \in DOMAIN e.additional_fields THEN e.additional_fields[k]
            ELSE e.attrs[mapping[k]]]

\* BitrixEntity.to_bitrix: every mapped attribute under its wire key, then
\* additional_fields, which win
ToBitrix(type, e) ==
    LET mapping == bitrix_field_mapping(type)
    IN [k \in (DOMAIN mapping) \cup (DOMAIN e.additional_fields) |->
            IF k \in DOMAIN e.additional_fields THEN e.additional_fields[k]
            ELSE e.attrs[mapping[k]]]

\* values a wire key may carry, and the payloads built from them
WireValues == {PyNone, PyInt(7), PyStr(<<"4", "2">>), PyStr(<<"x">>)}

\* a value of the attribute's declared type
TypedValue(attr) ==
    CASE attr \in {"name", "last_name", "second_name", "title", "stage_id",
                   "currency_id", "date_create", "date_modify"} -> PyStr(<<"x">>)
      [] attr = "opportunity" -> PyFloat(7)
      [] OTHER -> PyInt(7)

KeyPool(type) ==
    (DOMAIN bitrix_field_mapping(type)) \cup {"CUSTOM_X", order_key}
        \cup (IF type = "Contact" THEN {"EMAIL", "PHONE"} ELSE {})

\* under order_key: None, {}, a number, or a mapping
OrderValues == {PyNone, PyDict(0), PyInt(7)} \cup {PyDictOf(t) : t \in OrderTokens}

\* under EMAIL and PHONE: None, or a list of multi-field mappings
MultiValues == {PyNone, PyStrList(<<>>), PyStrList(<<"m1">>), PyStrList(<<"m1", "m2">>)}

ValuesOf(k) ==
    CASE k = order_key -> OrderValues
      [] k \in {"EMAIL", "PHONE"} -> MultiValues
      [] OTHER -> WireValues

\* nothing, the id alone, or every mapped key with a typed value
BasePayloads(type) ==
    {EmptyDict, [k \in {"ID"} |-> PyInt(7)],
     [k \in DOMAIN bitrix_field_mapping(type) |->
          TypedValue(bitrix_field_mapping(type)[k])]}

Payloads(type) ==
    {[k \in (DOMAIN base) \cup (DOMAIN over) |->
          IF k \in DOMAIN over THEN over[k] ELSE base[k]] :
        base \in BasePayloads(type),
        over \in UNION {{f \in [K -> WireValues \cup OrderValues \cup MultiValues] :
                            \A k \in K : f[k] \in ValuesOf(k)} :
                          K \in {X \in SUBSET KeyPool(type) : Cardinality(X) <= MaxFields}}}

ContactIdsArgs(type) ==
    IF type = "Contact" THEN {ContactIdsNone}
    ELSE {ContactIdsNone, ContactIdsList(<<5>>),
          ContactIdsStr(<<"1", ",", "x", ",", "2">>),
          ContactIdsStr(<<"1", ",", "2", ",", "x", ",", "4">>)}

\* what the caller did to the entity between from_bitrix and to_bitrix
NoEdit == [kind |-> "none", name |-> "", value |-> PyNone]
Edit(kind, name, value) == [kind |-> kind, name |-> name, value |-> value]

EntityFromBitrix ==
    /\ e_pc = "start"
    /\ LET built == FromBitrix(e_type, e_data, e_contact_ids)
       IN /\ e_pc' = IF built.exc THEN "done" ELSE "built"
          /\ e_raised' = built.exc
          /\ e_entity' = built.entity
          /\ e_prev' = built.entity
          /\ e_coercions' = IF built.exc THEN 0 ELSE 1
    /\ UNCHANGED <<e_type, e_data, e_contact_ids, e_wire, e_edit>>
    /\ UNCHANGED notEntity

EntityToBitrix ==
    /\ e_pc = "built"
    /\ e_pc' = "done"
    /\ e_wire' = ToBitrix(e_type, e_entity)
    /\ UNCHANGED <<e_type, e_data, e_contact_ids, e_entity, e_raised, e_edit,
                   e_coercions, e_prev>>
    /\ UNCHANGED notEntity

\* values a caller assigns to an attribute or an additional field
EditValues == {PyNone, PyInt(9), PyStr(<<"4", "2">>), PyStr(<<"y">>)}

\* the caller changed the entity: one change per run
Edited(edit, entity) ==
    /\ e_pc = "built" /\ e_edit = NoEdit
    /\ e_edit' = edit
    /\ e_entity' = entity
    /\ e_coercions' = 0
    /\ UNCHANGED <<e_pc, e_type, e_data, e_contact_ids, e_wire, e_raised, e_prev>>
    /\ UNCHANGED notEntity

\* entity.<attr> = value, for a mapped attribute
EntitySetAttr ==
    \E attr \in DOMAIN e_entity.attrs, value \in EditValues :
        Edited(Edit("attr", attr, value),
               [e_entity EXCEPT !.attrs[attr] = value])

\* contact.email = [...] or contact.phone = [...]
EntitySetMulti ==
    /\ e_type = "Contact"
    /\ \E items \in {<<>>, <<"m9">>} :
        \/ Edited(Edit("email", "email", PyStrList(items)),
                  [e_entity EXCEPT !.email = items])
        \/ Edited(Edit("phone", "phone", PyStrList(items)),
                  [e_entity EXCEPT !.phone = items])

\* deal.contact_ids = [...]
EntitySetContactIds ==
    /\ e_type # "Contact"
    /\ \E c \in {ContactIdsList(<<9>>), ContactIdsList(<<9, 8>>),
               ContactIdsStr(<<"1", ",", "x">>)} :
        Edited(Edit("contact_ids", c.kind, PyList(Len(c.ids))),
               [e_entity EXCEPT !.contact_ids = c])

\* entity.additional_fields[key] = value
EntitySetAdditional ==
    \E key \in (DOMAIN bitrix_field_mapping(e_type)) \cup {"CUSTOM_X"},
       value \in EditValues :
        Edited(Edit("additional", key, value),
               [e_entity EXCEPT !.additional_fields = DictSet(@, key, value)])

\* entity._convert_types() called once more
EntityConvertTypes ==
    /\ e_pc = "built" /\ e_coercions < MaxCoercions
    /\ e_prev' = e_entity
    /\ e_entity' = ConvertTypes(e_type, e_entity)
    /\ e_coercions' = e_coercions + 1
    /\ UNCHANGED <<e_pc, e_type, e_data, e_contact_ids, e_wire, e_raised, e_edit>>
    /\ UNCHANGED notEntity

\* payloads of the entities a caller edits: the id alone, every mapped key
\* and, for a contact, also EMAIL and PHONE
EditPayloads(type) ==
    LET full == [k \in DOMAIN bitrix_field_mapping(type) |->
                    TypedValue(bitrix_field_mapping(type)[k])]
    IN {[k \in {"ID"} |-> PyInt(7)], full}
       \cup (IF type = "Contact"
             THEN {[k \in (DOMAIN full) \cup {"EMAIL", "PHONE"} |->
                      CASE k = "EMAIL" -> PyStrList(<<"m1">>)
                        [] k = "PHONE" -> PyStrList(<<"m2">>)
                        [] OTHER -> full[k]]}
             ELSE {})

NextEntity == EntityFromBitrix \/ EntityToBitrix

NextEdit ==
    \/ EntityFromBitrix
    \/ EntitySetAttr \/ EntitySetMulti \/ EntitySetContactIds \/ EntitySetAdditional
    \/ EntityConvertTypes
    \/ EntityToBitrix

(***************************************************************************)
(* BitrixRepositoryFactory: the registry of repositories.                  *)
(***************************************************************************)
\* str.lower() of one character, for the letters the tags are made of
LowerChar(c) ==
    CASE c = "A" -> "a" [] c = "C" -> "c" [] c = "D" -> "d" [] c = "E" -> "e"
      [] c = "L" -> "l" [] c = "N" -> "n" [] c = "O" -> "o" [] c = "T" -> "t"
      [] OTHER -> c

\* entity_type.lower()
Lower(chars) == [i \in 1..Len(chars) |-> LowerChar(chars[i])]

\* the repository instances: _entity_type of BitrixContactRepository is
\* "contact", of BitrixDealRepository "deal"
ContactTag == <<"c", "o", "n", "t", "a", "c", "t">>
DealTag == <<"d", "e", "a", "l">>
Repository(tag, instance) == [tag |-> tag, instance |-> instance]
Repositories ==
    {Repository(ContactTag, 1), Repository(ContactTag, 2), Repository(DealTag, 1)}

\* base_repository.py 57-64
supports_entity_type(repository, entity_type) == entity_type = repository.tag

NoRepository == [some |-> FALSE, repo |-> Repository(<<>>, 0)]
SomeRepository(r) == [some |-> TRUE, repo |-> r]

RECURSIVE Scan(_, _)
\* repository_factory.py 50-53: the first repository that supports
\* entity_type, else ValueError
Scan(repos, entity_type) ==
    IF repos = <<>> THEN Raised(NoRepository)
    ELSE IF supports_entity_type(Head(repos), entity_type)
    THEN Returned(SomeRepository(Head(repos)))
    ELSE Scan(Tail(repos), entity_type)

\* a get_repository that does not lower-case the tag
GetRepositoryAsGiven(repos, entity_type) == Scan(repos, entity_type)

\* repository_factory.py 41-53
GetRepository(repos, entity_type) == Scan(repos, Lower(entity_type))

\* tags a caller asks for
TagArgs ==
    {DealTag, <<"D", "E", "A", "L">>, <<"D", "e", "a", "l">>, ContactTag,
     <<"C", "O", "N", "T", "A", "C", "T">>, <<"l", "e", "a", "d">>,
     <<"L", "E", "A", "D">>, <<>>}

RegistryGetRepository ==
    /\ r_lookups < MaxLookups
    /\ \E entity_type \in TagArgs :
        /\ r_arg' = entity_type
        /\ r_ret' = GetRepository(r_repos, entity_type).val
        /\ r_raised' = GetRepository(r_repos, entity_type).raised
    /\ r_lookups' = r_lookups + 1
    /\ UNCHANGED <<r_registered, r_repos>>
    /\ UNCHANGED notRegistry

NextRegistry == RegistryGetRepository

(***************************************************************************)
(* Two paginate walks of two callers on one repository instance, started   *)
(* with the same params mapping and interleaved at the awaits.  Mappings   *)
(* and lists are objects: a walk names the ones it works on, so that what  *)
(* is shared between the walks and with the caller is explicit.            *)
(***************************************************************************)
Walks == {1, 2}

\* pagination.py 49: params.copy() makes a new mapping object for the walk
CopyOfAliased(w) == 0
CopyOf(w) == w

\* pagination.py 47: all_results = [] makes a new list object for the walk
ResultsOfShared(w) == 1
ResultsOf(w) == w

\* pagination.py 45
WalkPageSize ==
    IF w_args.page_size.some /\ w_args.page_size.v # 0
    THEN w_args.page_size.v ELSE DefaultPageSize

\* self._bitrix.call(method, current_params) of a remote holding
\* w_args.total items that serves a page from the given offset, and fails
\* (raises, or answers None) at the offset w_args.fault names
Remote(offset) ==
    IF w_args.fault.at = offset
    THEN [kind |-> w_args.fault.kind, items |-> <<>>]
    ELSE [kind |-> "page",
          items |-> [i \in 1..Min(WalkPageSize, Max(w_args.total - offset, 0))
                        |-> offset + i]]

\* the items of a response as the objects decoding made of them for walk w
Decoded(w, items) == [i \in 1..Len(items) |-> [item |-> items[i], by |-> w]]

\* process_page(page_items)
WalkProcessPage(page_items) ==
    SelectSeq(page_items, LAMBDA x : KeepItem(w_args.process_page, x.item))

\* pagination.py 57
WalkLoopGuard(w, all) == ~w_args.max_items[w].some \/ Len(all) < w_args.max_items[w].v

\* pagination.py 79-82
WalkFinish(w, exc) ==
    LET all == w_lists'[ResultsOf(w)]
        failed == exc \/ ~w_args.max_items[w].some
    IN /\ w_pc' = [w_pc EXCEPT ![w] = "done"]
       /\ w_caught' = [w_caught EXCEPT ![w] = failed]
       /\ w_ret' = [w_ret EXCEPT ![w] =
                       IF failed THEN <<>> ELSE Slice(all, w_args.max_items[w].v)]
       /\ UNCHANGED w_requests

\* pagination.py 57-58: test the loop condition, then issue the next call
\* with the mapping object current_params as it is now, or leave the loop
WalkLoop(w, ref) ==
    IF WalkLoopGuard(w, w_lists'[ResultsOf(w)])
    THEN /\ w_pc' = [w_pc EXCEPT ![w] = "await"]
         /\ w_requests' = [w_requests EXCEPT ![w] = Append(@, w_heap'[ref])]
         /\ UNCHANGED <<w_ret, w_caught>>
    ELSE WalkFinish(w, FALSE)

\* pagination.py 44-58
WalkBegin(w) ==
    /\ w_pc[w] = "start"
    /\ LET ref == CopyOf(w)
           copy == w_heap[0]
       IN /\ w_cur' = [w_cur EXCEPT ![w] = ref]
          /\ w_heap' = [w_heap EXCEPT ![ref] =
                          IF start_param_name \in DOMAIN copy THEN copy
                          ELSE DictSet(copy, start_param_name, 0)]
          /\ UNCHANGED w_lists
          /\ WalkLoop(w, ref)
    /\ UNCHANGED w_args
    /\ UNCHANGED notWalks

\* pagination.py 58-77: the response of the walk's outstanding call arrives
WalkResponse(w) ==
    /\ w_pc[w] = "await"
    /\ LET ref == w_cur[w]
           response == Remote(w_heap[ref][start_param_name])
           page_items == Decoded(w, response.items)
           extended == [w_lists EXCEPT ![ResultsOf(w)] = @ \o WalkProcessPage(page_items)]
       IN CASE response.kind = "raise" ->
                 /\ UNCHANGED <<w_heap, w_lists>>
                 /\ WalkFinish(w, TRUE)
            [] response.kind = "none" \/ page_items = <<>> ->
                 /\ UNCHANGED <<w_heap, w_lists>>
                 /\ WalkFinish(w, FALSE)
            [] Len(page_items) < WalkPageSize ->
                 /\ w_lists' = extended
                 /\ UNCHANGED w_heap
                 /\ WalkFinish(w, FALSE)
            [] OTHER ->
                 /\ w_lists' = extended
                 /\ w_heap' = [w_heap EXCEPT ![ref][start_param_name] = @ + WalkPageSize]
                 /\ WalkLoop(w, ref)
    /\ UNCHANGED <<w_args, w_cur>>
    /\ UNCHANGED notWalks

Faults == {[at |-> 0 - 1, kind |-> "none"]}
          \cup {[at |-> a, kind |-> k] : a \in {0, 2}, k \in {"raise", "none"}}

NextWalks == \E w \in Walks : WalkBegin(w) \/ WalkResponse(w)

(***************************************************************************)
(* BitrixFilterBuilderMixin.  A mapping argument is None or a dict; the    *)
(* logic dict is held as its items in iteration order.                     *)
(***************************************************************************)
NoFilter == [some |-> FALSE, d |-> EmptyDict]
Filter(d) == [some |-> TRUE, d |-> d]
NoLogic == [some |-> FALSE, items |-> <<>>]
Logic(items) == [some |-> TRUE, items |-> items]

\* dict.update
Update(d, e) == [k \in (DOMAIN d) \cup (DOMAIN e) |-> IF k \in DOMAIN e THEN e[k] ELSE d[k]]

RECURSIVE PutOperators(_, _, _)
\* filter_builder.py 37-39: the inner loop over operators.items()
PutOperators(result_filter, field, operators) ==
    IF operators = <<>> THEN result_filter
    ELSE PutOperators(DictSet(result_filter,
                              Head(operators).operator \o field,
                              Head(operators).value),
                      field, Tail(operators))

RECURSIVE PutLogic(_, _)
\* filter_builder.py 36-39: the loop over filter_logic.items()
PutLogic(result_filter, items) ==
    IF items = <<>> THEN result_filter
    ELSE PutLogic(PutOperators(result_filter, Head(items).field, Head(items).operators),
                  Tail(items))

\* filter_builder.py 20-41: the mapping returned, and the two arguments as
\* they are afterwards
BuildFilterInPlace(filter_params, filter_logic) ==
    LET based == IF filter_params.some /\ filter_params.d # EmptyDict
                 THEN filter_params.d ELSE EmptyDict
        result_filter == IF filter_logic.some THEN PutLogic(based, filter_logic.items)
                         ELSE based
    IN [result |-> result_filter,
        filter_params |-> IF filter_params.some /\ filter_params.d # EmptyDict
                          THEN Filter(result_filter) ELSE filter_params,
        filter_logic |-> filter_logic]
BuildFilter(filter_params, filter_logic) ==
    LET based == IF filter_params.some /\ filter_params.d # EmptyDict
                 THEN Update(EmptyDict, filter_params.d) ELSE EmptyDict
        result_filter == IF filter_logic.some /\ filter_logic.items # <<>>
                         THEN PutLogic(based, filter_logic.items)
                         ELSE based
    IN [result |-> result_filter,
        filter_params |-> filter_params,
        filter_logic |-> filter_logic]

\* filter_builder.py 60-78
AddRangeFilterTruthy(field, min_value, max_value) ==
    LET low == IF min_value.some /\ min_value.v # 0
               THEN DictSet(EmptyDict, ">=" \o field, min_value.v) ELSE EmptyDict
    IN IF max_value.some /\ max_value.v # 0
       THEN DictSet(low, "<=" \o field, max_value.v) ELSE low
AddRangeFilter(field, min_value, max_value) ==
    LET low == IF min_value.some
               THEN DictSet(EmptyDict, ">=" \o field, min_value.v) ELSE EmptyDict
    IN IF max_value.some
       THEN DictSet(low, "<=" \o field, max_value.v) ELSE low

\* the arguments tried
DistinctSeqs(S) ==
    {q \in SeqsUpTo(S, Cardinality(S)) :
        \A i, j \in 1..Len(q) : i # j => q[i] # q[j]}
FilterFields == {"ID", "=ID"}
FilterOperators == {">", ">="}
OperatorMaps ==
    {[i \in 1..Len(q) |-> [operator |-> q[i], value |-> v[i]]] :
        q \in DistinctSeqs(FilterOperators), v \in [1..2 -> {5, 9}]}
LogicArgs ==
    {NoLogic} \cup
    {Logic([i \in 1..Len(q) |-> [field |-> q[i], operators |-> o[i]]]) :
        q \in DistinctSeqs(FilterFields), o \in [1..2 -> OperatorMaps]}
FilterArgs ==
    {NoFilter} \cup
    {Filter([k \in K |-> v[k]]) : K \in SUBSET {"ID", ">=ID"},
                                  v \in [{"ID", ">=ID"} -> {1, 5}]}
BoundArgs == {NoneOpt, Some(0), Some(5)}

BuildFilterCall ==
    /\ f_pc = "idle"
    /\ \E filter_params \in FilterArgs, filter_logic \in LogicArgs :
        LET out == BuildFilter(filter_params, filter_logic)
        IN /\ f_op' = "build_filter"
           /\ f_args' = [filter_params |-> filter_params, filter_logic |-> filter_logic]
           /\ f_ret' = out.result
           /\ f_after' = [filter_params |-> out.filter_params,
                          filter_logic |-> out.filter_logic]
    /\ f_pc' = "done"
    /\ UNCHANGED notFilter

AddRangeFilterCall ==
    /\ f_pc = "idle"
    /\ \E field \in {"ID", "PRICE"}, min_value \in BoundArgs, max_value \in BoundArgs :
        /\ f_op' = "add_range_filter"
        /\ f_args' = [field |-> field, min_value |-> min_value, max_value |-> max_value]
        /\ f_ret' = AddRangeFilter(field, min_value, max_value)
        /\ f_after' = f_after
    /\ f_pc' = "done"
    /\ UNCHANGED notFilter

NextFilter == BuildFilterCall \/ AddRangeFilterCall

(***************************************************************************)
(* Specifications: one per component; the other components stay idle.      *)
(***************************************************************************)
InitPaginate ==
    /\ params \in ParamsArgs
    /\ page_size \in {NoneOpt} \cup {Some(n) : n \in 1..MaxPageSize}
    /\ max_items \in {NoneOpt} \cup {Some(n) : n \in 0..MaxItemsArg}
    /\ process_page \in Transforms
    /\ pg_pc = "start"
    /\ current_params = params
    /\ all_results = <<>>
    /\ pg_ret = <<>>
    /\ pg_caught = FALSE
    /\ pg_requests = <<>>
    /\ pg_received = <<>>
    /\ pg_acc_at_call = <<>>
    /\ served = 0
    /\ b_pc = "idle"
    /\ b_op = "none"
    /\ b_commands = EmptyDict
    /\ b_items = <<>>
    /\ b_ids = <<>>
    /\ b_processor = EmptyDict
    /\ b_requests = <<>>
    /\ b_response = [kind |-> "none", result |-> ResultNone]
    /\ b_ret = <<>>
    /\ b_raised = FALSE
    /\ c_pc = "idle"
    /\ c_op = "none"
    /\ c_args = EmptyDict
    /\ c_local = EmptyDict
    /\ c_requests = <<>>
    /\ c_responses = <<>>
    /\ c_ret = <<>>
    /\ c_raised = FALSE
    /\ e_pc = "idle"
    /\ e_type = "Contact"
    /\ e_data = EmptyDict
    /\ e_contact_ids = ContactIdsNone
    /\ e_entity = NoEntityBuilt
    /\ e_wire = EmptyDict
    /\ e_raised = FALSE
    /\ e_edit = NoEdit
    /\ e_coercions = 0
    /\ e_prev = NoEntityBuilt
    /\ r_registered = <<>>
    /\ r_repos = <<>>
    /\ r_arg = <<>>
    /\ r_ret = NoRepository
    /\ r_raised = FALSE
    /\ r_lookups = MaxLookups
    /\ w_args = <<>>
    /\ w_pc = <<>>
    /\ w_heap = <<>>
    /\ w_cur = <<>>
    /\ w_lists = <<>>
    /\ w_requests = <<>>
    /\ w_ret = <<>>
    /\ w_caught = <<>>
    /\ f_pc = "idle"
    /\ f_op = "none"
    /\ f_args = <<>>
    /\ f_ret = <<>>
    /\ f_after = <<>>

SpecPaginate == InitPaginate /\ [][NextPaginate]_vars

\* the remote call of a walk that awaits it comes back (with a response or
\* an error), and the event loop then resumes the walk
SpecPaginateFair == SpecPaginate /\ WF_vars(NextPaginate)

InitBatch ==
    /\ params = EmptyDict
    /\ page_size = NoneOpt
    /\ max_items = NoneOpt
    /\ process_page = "identity"
    /\ pg_pc = "idle"
    /\ current_params = EmptyDict
    /\ all_results = <<>>
    /\ pg_ret = <<>>
    /\ pg_caught = FALSE
    /\ pg_requests = <<>>
    /\ pg_received = <<>>
    /\ pg_acc_at_call = <<>>
    /\ served = 0
    /\ b_pc = "idle"
    /\ b_op = "none"
    /\ b_commands = EmptyDict
    /\ b_items = <<>>
    /\ b_ids = <<>>
    /\ b_processor = EmptyDict
    /\ b_requests = <<>>
    /\ b_response = [kind |-> "none", result |-> ResultNone]
    /\ b_ret = <<>>
    /\ b_raised = FALSE
    /\ c_pc = "idle"
    /\ c_op = "none"
    /\ c_args = EmptyDict
    /\ c_local = EmptyDict
    /\ c_requests = <<>>
    /\ c_responses = <<>>
    /\ c_ret = <<>>
    /\ c_raised = FALSE
    /\ e_pc = "idle"
    /\ e_type = "Contact"
    /\ e_data = EmptyDict
    /\ e_contact_ids = ContactIdsNone
    /\ e_entity = NoEntityBuilt
    /\ e_wire = EmptyDict
    /\ e_raised = FALSE
    /\ e_edit = NoEdit
    /\ e_coercions = 0
    /\ e_prev = NoEntityBuilt
    /\ r_registered = <<>>
    /\ r_repos = <<>>
    /\ r_arg = <<>>
    /\ r_ret = NoRepository
    /\ r_raised = FALSE
    /\ r_lookups = MaxLookups
    /\ w_args = <<>>
    /\ w_pc = <<>>
    /\ w_heap = <<>>
    /\ w_cur = <<>>
    /\ w_lists = <<>>
    /\ w_requests = <<>>
    /\ w_ret = <<>>
    /\ w_caught = <<>>
    /\ f_pc = "idle"
    /\ f_op = "none"
    /\ f_args = <<>>
    /\ f_ret = <<>>
    /\ f_after = <<>>

SpecBatch == InitBatch /\ [][NextBatch]_vars

InitCap ==
    /\ params = EmptyDict
    /\ page_size = NoneOpt
    /\ max_items = NoneOpt
    /\ process_page = "identity"
    /\ pg_pc = "idle"
    /\ current_params = EmptyDict
    /\ all_results = <<>>
    /\ pg_ret = <<>>
    /\ pg_caught = FALSE
    /\ pg_requests = <<>>
    /\ pg_received = <<>>
    /\ pg_acc_at_call = <<>>
    /\ served = 0
    /\ b_pc = "idle"
    /\ b_op = "none"
    /\ b_commands = EmptyDict
    /\ b_items = <<>>
    /\ b_ids = <<>>
    /\ b_processor = EmptyDict
    /\ b_requests = <<>>
    /\ b_response = [kind |-> "none", result |-> ResultNone]
    /\ b_ret = <<>>
    /\ b_raised = FALSE
    /\ c_pc = "idle"
    /\ c_op = "none"
    /\ c_args = EmptyDict
    /\ c_local = EmptyDict
    /\ c_requests = <<>>
    /\ c_responses = <<>>
    /\ c_ret = <<>>
    /\ c_raised = FALSE
    /\ e_pc = "idle"
    /\ e_type = "Contact"
    /\ e_data = EmptyDict
    /\ e_contact_ids = ContactIdsNone
    /\ e_entity = NoEntityBuilt
    /\ e_wire = EmptyDict
    /\ e_raised = FALSE
    /\ e_edit = NoEdit
    /\ e_coercions = 0
    /\ e_prev = NoEntityBuilt
    /\ r_registered = <<>>
    /\ r_repos = <<>>
    /\ r_arg = <<>>
    /\ r_ret = NoRepository
    /\ r_raised = FALSE
    /\ r_lookups = MaxLookups
    /\ w_args = <<>>
    /\ w_pc = <<>>
    /\ w_heap = <<>>
    /\ w_cur = <<>>
    /\ w_lists = <<>>
    /\ w_requests = <<>>
    /\ w_ret = <<>>
    /\ w_caught = <<>>
    /\ f_pc = "idle"
    /\ f_op = "none"
    /\ f_args = <<>>
    /\ f_ret = <<>>
    /\ f_after = <<>>

SpecCap == InitCap /\ [][NextCap]_vars

InitEntity ==
    /\ params = EmptyDict
    /\ page_size = NoneOpt
    /\ max_items = NoneOpt
    /\ process_page = "identity"
    /\ pg_pc = "idle"
    /\ current_params = EmptyDict
    /\ all_results = <<>>
    /\ pg_ret = <<>>
    /\ pg_caught = FALSE
    /\ pg_requests = <<>>
    /\ pg_received = <<>>
    /\ pg_acc_at_call = <<>>
    /\ served = 0
    /\ b_pc = "idle"
    /\ b_op = "none"
    /\ b_commands = EmptyDict
    /\ b_items = <<>>
    /\ b_ids = <<>>
    /\ b_processor = EmptyDict
    /\ b_requests = <<>>
    /\ b_response = [kind |-> "none", result |-> ResultNone]
    /\ b_ret = <<>>
    /\ b_raised = FALSE
    /\ c_pc = "idle"
    /\ c_op = "none"
    /\ c_args = EmptyDict
    /\ c_local = EmptyDict
    /\ c_requests = <<>>
    /\ c_responses = <<>>
    /\ c_ret = <<>>
    /\ c_raised = FALSE
    /\ e_pc = "start"
    /\ e_type \in EntityTypes
    /\ e_data \in Payloads(e_type)
    /\ e_contact_ids \in ContactIdsArgs(e_type)
    /\ e_entity = NoEntityBuilt
    /\ e_wire = EmptyDict
    /\ e_raised = FALSE
    /\ e_edit = NoEdit
    /\ e_coercions = 0
    /\ e_prev = NoEntityBuilt
    /\ r_registered = <<>>
    /\ r_repos = <<>>
    /\ r_arg = <<>>
    /\ r_ret = NoRepository
    /\ r_raised = FALSE
    /\ r_lookups = MaxLookups
    /\ w_args = <<>>
    /\ w_pc = <<>>
    /\ w_heap = <<>>
    /\ w_cur = <<>>
    /\ w_lists = <<>>
    /\ w_requests = <<>>
    /\ w_ret = <<>>
    /\ w_caught = <<>>
    /\ f_pc = "idle"
    /\ f_op = "none"
    /\ f_args = <<>>
    /\ f_ret = <<>>
    /\ f_after = <<>>

SpecEntity == InitEntity /\ [][NextEntity]_vars

InitEdit ==
    /\ params = EmptyDict
    /\ page_size = NoneOpt
    /\ max_items = NoneOpt
    /\ process_page = "identity"
    /\ pg_pc = "idle"
    /\ current_params = EmptyDict
    /\ all_results = <<>>
    /\ pg_ret = <<>>
    /\ pg_caught = FALSE
    /\ pg_requests = <<>>
    /\ pg_received = <<>>
    /\ pg_acc_at_call = <<>>
    /\ served = 0
    /\ b_pc = "idle"
    /\ b_op = "none"
    /\ b_commands = EmptyDict
    /\ b_items = <<>>
    /\ b_ids = <<>>
    /\ b_processor = EmptyDict
    /\ b_requests = <<>>
    /\ b_response = [kind |-> "none", result |-> ResultNone]
    /\ b_ret = <<>>
    /\ b_raised = FALSE
    /\ c_pc = "idle"
    /\ c_op = "none"
    /\ c_args = EmptyDict
    /\ c_local = EmptyDict
    /\ c_requests = <<>>
    /\ c_responses = <<>>
    /\ c_ret = <<>>
    /\ c_raised = FALSE
    /\ e_pc = "start"
    /\ e_type \in EntityTypes
    /\ e_data \in EditPayloads(e_type)
    /\ e_contact_ids \in ContactIdsArgs(e_type)
    /\ e_entity = NoEntityBuilt
    /\ e_wire = EmptyDict
    /\ e_raised = FALSE
    /\ e_edit = NoEdit
    /\ e_coercions = 0
    /\ e_prev = NoEntityBuilt
    /\ r_registered = <<>>
    /\ r_repos = <<>>
    /\ r_arg = <<>>
    /\ r_ret = NoRepository
    /\ r_raised = FALSE
    /\ r_lookups = MaxLookups
    /\ w_args = <<>>
    /\ w_pc = <<>>
    /\ w_heap = <<>>
    /\ w_cur = <<>>
    /\ w_lists = <<>>
    /\ w_requests = <<>>
    /\ w_ret = <<>>
    /\ w_caught = <<>>
    /\ f_pc = "idle"
    /\ f_op = "none"
    /\ f_args = <<>>
    /\ f_ret = <<>>
    /\ f_after = <<>>

SpecEdit == InitEdit /\ [][NextEdit]_vars

InitRegistry ==
    /\ params = EmptyDict
    /\ page_size = NoneOpt
    /\ max_items = NoneOpt
    /\ process_page = "identity"
    /\ pg_pc = "idle"
    /\ current_params = EmptyDict
    /\ all_results = <<>>
    /\ pg_ret = <<>>
    /\ pg_caught = FALSE
    /\ pg_requests = <<>>
    /\ pg_received = <<>>
    /\ pg_acc_at_call = <<>>
    /\ served = 0
    /\ b_pc = "idle"
    /\ b_op = "none"
    /\ b_commands = EmptyDict
    /\ b_items = <<>>
    /\ b_ids = <<>>
    /\ b_processor = EmptyDict
    /\ b_requests = <<>>
    /\ b_response = [kind |-> "none", result |-> ResultNone]
    /\ b_ret = <<>>
    /\ b_raised = FALSE
    /\ c_pc = "idle"
    /\ c_op = "none"
    /\ c_args = EmptyDict
    /\ c_local = EmptyDict
    /\ c_requests = <<>>
    /\ c_responses = <<>>
    /\ c_ret = <<>>
    /\ c_raised = FALSE
    /\ e_pc = "idle"
    /\ e_type = "Contact"
    /\ e_data = EmptyDict
    /\ e_contact_ids = ContactIdsNone
    /\ e_entity = NoEntityBuilt
    /\ e_wire = EmptyDict
    /\ e_raised = FALSE
    /\ e_edit = NoEdit
    /\ e_coercions = 0
    /\ e_prev = NoEntityBuilt
    /\ r_registered \in SeqsUpTo(Repositories, MaxRepos)
    /\ r_repos = r_registered
    /\ r_arg = <<>>
    /\ r_ret = NoRepository
    /\ r_raised = FALSE
    /\ r_lookups = 0
    /\ w_args = <<>>
    /\ w_pc = <<>>
    /\ w_heap = <<>>
    /\ w_cur = <<>>
    /\ w_lists = <<>>
    /\ w_requests = <<>>
    /\ w_ret = <<>>
    /\ w_caught = <<>>
    /\ f_pc = "idle"
    /\ f_op = "none"
    /\ f_args = <<>>
    /\ f_ret = <<>>
    /\ f_after = <<>>

SpecRegistry == InitRegistry /\ [][NextRegistry]_vars

InitWalks ==
    /\ params = EmptyDict
    /\ page_size = NoneOpt
    /\ max_items = NoneOpt
    /\ process_page = "identity"
    /\ pg_pc = "idle"
    /\ current_params = EmptyDict
    /\ all_results = <<>>
    /\ pg_ret = <<>>
    /\ pg_caught = FALSE
    /\ pg_requests = <<>>
    /\ pg_received = <<>>
    /\ pg_acc_at_call = <<>>
    /\ served = 0
    /\ b_pc = "idle"
    /\ b_op = "none"
    /\ b_commands = EmptyDict
    /\ b_items = <<>>
    /\ b_ids = <<>>
    /\ b_processor = EmptyDict
    /\ b_requests = <<>>
    /\ b_response = [kind |-> "none", result |-> ResultNone]
    /\ b_ret = <<>>
    /\ b_raised = FALSE
    /\ c_pc = "idle"
    /\ c_op = "none"
    /\ c_args = EmptyDict
    /\ c_local = EmptyDict
    /\ c_requests = <<>>
    /\ c_responses = <<>>
    /\ c_ret = <<>>
    /\ c_raised = FALSE
    /\ e_pc = "idle"
    /\ e_type = "Contact"
    /\ e_data = EmptyDict
    /\ e_contact_ids = ContactIdsNone
    /\ e_entity = NoEntityBuilt
    /\ e_wire = EmptyDict
    /\ e_raised = FALSE
    /\ e_edit = NoEdit
    /\ e_coercions = 0
    /\ e_prev = NoEntityBuilt
    /\ r_registered = <<>>
    /\ r_repos = <<>>
    /\ r_arg = <<>>
    /\ r_ret = NoRepository
    /\ r_raised = FALSE
    /\ r_lookups = MaxLookups
    /\ w_args \in
         [params : ParamsArgs,
          page_size : {NoneOpt} \cup {Some(n) : n \in 1..MaxPageSize},
          process_page : Transforms,
          max_items : [Walks -> {NoneOpt} \cup {Some(n) : n \in 0..MaxItemsArg}],
          total : 0..MaxTotal,
          fault : Faults]
    /\ w_pc = [w \in Walks |-> "start"]
    /\ w_heap = [ref \in {0} \cup Walks |-> IF ref = 0 THEN w_args.params ELSE EmptyDict]
    /\ w_cur = [w \in Walks |-> 0]
    /\ w_lists = [w \in Walks |-> <<>>]
    /\ w_requests = [w \in Walks |-> <<>>]
    /\ w_ret = [w \in Walks |-> <<>>]
    /\ w_caught = [w \in Walks |-> FALSE]
    /\ f_pc = "idle"
    /\ f_op = "none"
    /\ f_args = <<>>
    /\ f_ret = <<>>
    /\ f_after = <<>>

SpecWalks == InitWalks /\ [][NextWalks]_vars

InitFilter ==
    /\ params = EmptyDict
    /\ page_size = NoneOpt
    /\ max_items = NoneOpt
    /\ process_page = "identity"
    /\ pg_pc = "idle"
    /\ current_params = EmptyDict
    /\ all_results = <<>>
    /\ pg_ret = <<>>
    /\ pg_caught = FALSE
    /\ pg_requests = <<>>
    /\ pg_received = <<>>
    /\ pg_acc_at_call = <<>>
    /\ served = 0
    /\ b_pc = "idle"
    /\ b_op = "none"
    /\ b_commands = EmptyDict
    /\ b_items = <<>>
    /\ b_ids = <<>>
    /\ b_processor = EmptyDict
    /\ b_requests = <<>>
    /\ b_response = [kind |-> "none", result |-> ResultNone]
    /\ b_ret = <<>>
    /\ b_raised = FALSE
    /\ c_pc = "idle"
    /\ c_op = "none"
    /\ c_args = EmptyDict
    /\ c_local = EmptyDict
    /\ c_requests = <<>>
    /\ c_responses = <<>>
    /\ c_ret = <<>>
    /\ c_raised = FALSE
    /\ e_pc = "idle"
    /\ e_type = "Contact"
    /\ e_data = EmptyDict
    /\ e_contact_ids = ContactIdsNone
    /\ e_entity = NoEntityBuilt
    /\ e_wire = EmptyDict
    /\ e_raised = FALSE
    /\ e_edit = NoEdit
    /\ e_coercions = 0
    /\ e_prev = NoEntityBuilt
    /\ r_registered = <<>>
    /\ r_repos = <<>>
    /\ r_arg = <<>>
    /\ r_ret = NoRepository
    /\ r_raised = FALSE
    /\ r_lookups = MaxLookups
    /\ w_args = <<>>
    /\ w_pc = <<>>
    /\ w_heap = <<>>
    /\ w_cur = <<>>
    /\ w_lists = <<>>
    /\ w_requests = <<>>
    /\ w_ret = <<>>
    /\ w_caught = <<>>
    /\ f_pc = "idle"
    /\ f_op = "none"
    /\ f_args = <<>>
    /\ f_ret = <<>>
    /\ f_after = <<>>

SpecFilter == InitFilter /\ [][NextFilter]_vars

(***************************************************************************)
(* Claims about paginate (checked under SpecPaginate).                     *)
(***************************************************************************)
\* every item the remote has handed out, in source order
SourceItems == [i \in 1..served |-> i]

\* what the caller's transform makes of them
Yielded == ProcessPage(process_page, SourceItems)

\* every response before the last one was a full page of actual_page_size items
FullPagesBeforeLast ==
    \A i \in 1..(Len(pg_received) - 1) :
        /\ pg_received[i].kind = "page"
        /\ Len(pg_received[i].items) = actual_page_size

LastResponse == pg_received[Len(pg_received)]

\* k >= 0 full pages, then one non-empty page of fewer than page-size items
FullThenShort ==
    /\ Len(pg_received) >= 1
    /\ FullPagesBeforeLast
    /\ LastResponse.kind = "page"
    /\ Len(LastResponse.items) > 0
    /\ Len(LastResponse.items) < actual_page_size

\* k >= 0 full pages, then an empty page
FullThenEmpty ==
    /\ Len(pg_received) >= 1
    /\ FullPagesBeforeLast
    /\ LastResponse.kind = "page"
    /\ LastResponse.items = <<>>

\* a failure on page n > 1: the call raised or the response has no envelope
FailedMidWalk ==
    /\ Len(pg_received) > 1
    /\ FullPagesBeforeLast
    /\ LastResponse.kind \in {"raise", "none", "noenv"}

\* C1: without max_items, against k full pages followed by a short non-empty
\* page, paginate returns all k*P+r items in source order after exactly k+1
\* remote calls.
C1_AllItemsAfterShortPage ==
    (pg_pc = "done" /\ ~max_items.some /\ process_page = "identity" /\ FullThenShort)
        => /\ pg_ret = SourceItems
           /\ Len(pg_requests) = Len(pg_received)

\* C2: without max_items, against k full pages followed by an empty page,
\* paginate issues exactly k+1 remote calls, stops and returns all k*P items.
C2_ExactMultipleExtraCall ==
    (pg_pc = "done" /\ ~max_items.some /\ process_page = "identity" /\ FullThenEmpty)
        => /\ Len(pg_requests) = Len(pg_received)
           /\ Len(pg_ret) = (Len(pg_received) - 1) * actual_page_size
           /\ pg_ret = SourceItems

\* C3: a remote failure on page n > 1 ends the walk with no further call and
\* the items accumulated from pages 1..n-1 are returned (stated for walks with
\* a max_items ceiling, whose final slice at line 79 cannot fail).
C3_PartialResultsOnFailure ==
    (pg_pc = "done" /\ max_items.some /\ FailedMidWalk)
        => /\ Len(pg_requests) = Len(pg_received)
           /\ pg_ret = Yielded
           /\ pg_ret # <<>>

\* C4: with max_items = m paginate returns at most m items, exactly the first
\* m yielded items when the source and the transform yield at least m, and no
\* remote call is issued once the accumulated count has reached m.
C4_MaxItemsCeiling ==
    max_items.some =>
        /\ \A i \in 1..Len(pg_acc_at_call) : pg_acc_at_call[i] < max_items.v
        /\ pg_pc = "done" =>
            /\ Len(pg_ret) <= max_items.v
            /\ Len(Yielded) >= max_items.v
                 => pg_ret = SubSeq(Yielded, 1, max_items.v)

\* a walk that accumulated more than max_items over two calls and was cut
C4_Witness ==
    /\ pg_pc = "done"
    /\ max_items.some
    /\ max_items.v >= 1
    /\ Len(pg_requests) >= 2
    /\ Len(all_results) > max_items.v
    /\ Len(pg_ret) = max_items.v

(***************************************************************************)
(* Claims about the batch capability (checked under SpecBatch).            *)
(***************************************************************************)
\* the batch result is a mapping that holds an entry under key
HoldsEntry(key) ==
    /\ b_response.kind = "env"
    /\ b_response.result.rk = "map"
    /\ key \in DOMAIN b_response.result.m

RawEntry(key) == b_response.result.m[key]

\* the identifier each raw result of the model stands for, None when it is
\* false or cannot be coerced
ExpectedId(raw) ==
    CASE raw = PyInt(7) -> Some(7)
      [] raw = PyStr(<<"4", "2">>) -> Some(42)
      [] raw = PyStr(<<"-", "1">>) -> Some(0 - 1)
      [] OTHER -> NoneOpt

\* C5: batch_create returns exactly len(items) slots, slot i the coerced
\* identifier found under cmd{i} and None otherwise, whatever the other keys
\* hold; a whole-batch failure gives len(items) Nones.
C5_BatchCreateAligned ==
    (b_pc = "done" /\ b_op = "batch_create") =>
        /\ Len(b_ret) = Len(b_items)
        /\ \A i \in 0..(Len(b_items) - 1) :
              b_ret[i + 1] = IF HoldsEntry(CmdKey(i))
                             THEN ExpectedId(RawEntry(CmdKey(i)))
                             ELSE NoneOpt

\* three items, the response omits cmd1: [id0, None, id2]
C5_Witness ==
    /\ b_pc = "done" /\ b_op = "batch_create"
    /\ Len(b_items) = 3
    /\ b_response.kind = "env" /\ b_response.result.rk = "map"
    /\ DOMAIN b_response.result.m = {"cmd0", "cmd2"}
    /\ b_ret = <<Some(7), NoneOpt, Some(42)>>

\* C6: execute_batch issues exactly one remote call with one {method, params}
\* entry per correlation key; a well-formed response gives back its result
\* mapping unchanged, a malformed one or a failed call the empty mapping.
C6_ExecuteBatch ==
    b_op = "execute_batch" =>
        /\ Len(b_requests) = 1
        /\ DOMAIN b_requests[1] = DOMAIN b_commands
        /\ \A k \in DOMAIN b_commands :
              b_requests[1][k] = [method |-> b_commands[k][1],
                                  params |-> b_commands[k][2]]
        /\ b_pc = "done" =>
            /\ (b_response.kind = "env" /\ b_response.result.rk = "map")
                  => /\ DOMAIN b_ret.m = DOMAIN b_response.result.m
                     /\ \A k \in DOMAIN b_ret.m : b_ret.m[k] = b_response.result.m[k]
            /\ b_response.kind \in {"raise", "none", "num", "empty", "noenv"}
                  => b_ret = ResultMap(EmptyDict)

\* two commands, the result holds only one of them, with a false raw value
C6_Witness ==
    /\ b_pc = "done" /\ b_op = "execute_batch"
    /\ DOMAIN b_commands = {"a", "b"}
    /\ b_response.kind = "env" /\ b_response.result.rk = "map"
    /\ DOMAIN b_response.result.m = {"a"}
    /\ b_response.result.m["a"] = PyNone
    /\ DOMAIN b_ret.m = {"a"}

DistinctIds == \A i, j \in 1..Len(b_ids) : b_ids[i] = b_ids[j] => i = j

\* the command of position i (1-based) produced a result
Produced(i) == HoldsEntry(CmdKey(i - 1)) /\ Truthy(RawEntry(CmdKey(i - 1)))

\* C7: for distinct ids, batch_get_by_ids issues one command per id keyed by
\* position and returns exactly the ids whose command produced a result and
\* whose processor did not return None, each mapped to its processed result
\* (stated for processors that return; a raising processor is C29's case).
C7_GetByIdsKeySet ==
    ( /\ b_pc = "done" /\ b_op = "batch_get_by_ids" /\ b_ids # <<>>
      /\ DistinctIds
      /\ \A r \in DOMAIN b_processor : b_processor[r] # "raise" )
    => /\ Len(b_requests) = 1
       /\ DOMAIN b_requests[1] = {CmdKey(i - 1) : i \in 1..Len(b_ids)}
       /\ \A i \in 1..Len(b_ids) : b_requests[1][CmdKey(i - 1)].params = b_ids[i]
       /\ DOMAIN b_ret =
            {b_ids[i] : i \in {j \in 1..Len(b_ids) :
                 Produced(j) /\ b_processor[RawEntry(CmdKey(j - 1))] # "none"}}
       /\ \A i \in 1..Len(b_ids) :
             b_ids[i] \in DOMAIN b_ret =>
                b_ret[b_ids[i]].of = RawEntry(CmdKey(i - 1))

(***************************************************************************)
(* Claims about the read, write and relationship capabilities (SpecCap).   *)
(***************************************************************************)
\* C8: no exception crosses a capability boundary: whatever the remote call
\* does (raise, or return a value of any shape), a finished capability
\* method has returned and not raised.
C8_NoExceptionCrosses == c_pc = "done" => ~c_raised

\* the first remote call of the method failed / reported the entity absent
FirstCallFailed == c_responses[1].kind = "raise"
ReportedAbsent ==
    c_responses[1].kind = "env" /\ ~RecTruthy(c_responses[1].result)

\* C9: get_by_id (the generic one and the deal repository's) returns None
\* without raising both when the remote reports the entity absent (falsy
\* result) and when the underlying call fails, and list_entities returns the
\* empty list without raising when the underlying call fails.
C9_SoftFailure ==
    c_pc = "done" =>
        /\ (c_op \in {"get_by_id", "deal_get_by_id"}
                /\ (FirstCallFailed \/ ReportedAbsent))
              => (c_ret = NoEntity /\ ~c_raised)
        /\ (c_op = "list_entities" /\ FirstCallFailed)
              => (c_ret = <<>> /\ ~c_raised)

\* get_by_id after a call that raised: None came back
C9_Witness ==
    /\ c_pc = "done" /\ c_op = "get_by_id"
    /\ FirstCallFailed
    /\ c_ret = NoEntity /\ ~c_raised

(***************************************************************************)
(* Claims about the entity model (SpecEntity).                             *)
(***************************************************************************)
MappedKeys == DOMAIN bitrix_field_mapping(e_type)
OnlyMappedKeys == DOMAIN e_data \subseteq MappedKeys
RoundTripDone == e_pc = "done" /\ ~e_raised /\ OnlyMappedKeys

\* a wire value the coercion rewrites: any str COMPANY_ID or OPPORTUNITY, a
\* str of digits in another identifier field
Rewritten(k, v) ==
    /\ v.t = "str"
    /\ \/ k \in {"COMPANY_ID", "OPPORTUNITY"}
       \/ /\ k \in {"ID", "ASSIGNED_BY_ID", "CREATED_BY_ID", "MODIFY_BY_ID",
                    "CATEGORY_ID", "TYPE_ID"}
          /\ IsDigit(v.s)

EntityBuilt == e_pc \in {"built", "done"} /\ ~e_raised

\* the payload from_wire reads once an entity is built: the mapping under
\* order_key when that key holds a true value, else the payload itself
EffectiveData ==
    IF order_key \in DOMAIN e_data /\ Truthy(e_data[order_key])
    THEN OrderData(e_data[order_key].s[1])
    ELSE e_data

\* C11 as stated: every key of the payload that is absent from the mapping
\* table, and only those, is in additional_fields with its value, and to_wire
\* emits each of them unchanged.
C11_UnmappedKeysKept ==
    EntityBuilt =>
        /\ DOMAIN e_entity.additional_fields = (DOMAIN e_data) \ MappedKeys
        /\ \A k \in (DOMAIN e_data) \ MappedKeys :
              /\ e_entity.additional_fields[k] = e_data[k]
              /\ e_pc = "done" => (k \in DOMAIN e_wire /\ e_wire[k] = e_data[k])

\* C11: from_wire first replaces a payload that holds a true value under
\* "order0000000000" by the mapping under that key; of the payload so
\* obtained every key that is absent from the mapping table, and only those,
\* is in additional_fields with its value unchanged, and to_wire emits each
\* of them unchanged alongside all the mapped keys.
C11_AdditionalFields ==
    EntityBuilt =>
        /\ DOMAIN e_entity.additional_fields = (DOMAIN EffectiveData) \ MappedKeys
        /\ \A k \in (DOMAIN EffectiveData) \ MappedKeys :
              /\ e_entity.additional_fields[k] = EffectiveData[k]
              /\ e_pc = "done" => (k \in DOMAIN e_wire /\ e_wire[k] = EffectiveData[k])
        /\ e_pc = "done" => MappedKeys \subseteq DOMAIN e_wire

\* {ID, CUSTOM_X} went to the wire and back with CUSTOM_X in additional_fields
C11_Witness ==
    /\ e_pc = "done" /\ ~e_raised
    /\ DOMAIN e_data = {"ID", "CUSTOM_X"}
    /\ DOMAIN e_entity.additional_fields = {"CUSTOM_X"}
    /\ e_wire["CUSTOM_X"] = e_data["CUSTOM_X"]

IdKeys == {"ID", "COMPANY_ID", "ASSIGNED_BY_ID", "CREATED_BY_ID", "MODIFY_BY_ID",
           "CATEGORY_ID", "TYPE_ID"}
IdAttrs == {"id", "company_id", "assigned_by_id", "created_by_id", "modified_by_id",
            "category_id", "type_id"}

\* the identifier keys of the payload hold strings or integers and the
\* amount a string or a float, as the wire delivers them
WireTyped ==
    \A k \in DOMAIN EffectiveData :
        /\ k \in IdKeys => EffectiveData[k].t \in {"str", "int"}
        /\ k = "OPPORTUNITY" => EffectiveData[k].t \in {"str", "float"}

\* C12: after from_wire every identifier-like attribute holds an integer or
\* null, never a leftover string, and the amount attribute holds a float.
C12_CoercionInvariant ==
    (EntityBuilt /\ WireTyped) =>
        /\ \A a \in IdAttrs \cap DOMAIN e_entity.attrs :
              e_entity.attrs[a].t \in {"int", "none"}
        /\ "opportunity" \in DOMAIN e_entity.attrs
              => e_entity.attrs["opportunity"].t = "float"

\* the payload holds the str chars under key k
HoldsStr(k, chars) ==
    k \in DOMAIN EffectiveData /\ EffectiveData[k] = PyStr(chars)

\* C13: a digit-only string company_id becomes that integer and a non-digit
\* one None; a string opportunity that does not parse becomes 0.0 and one
\* that parses its float; a comma-separated contact_ids string becomes the
\* list of the integers of its digit-only tokens, in order.
C13_CoercionRules ==
    EntityBuilt =>
        /\ HoldsStr("COMPANY_ID", <<"4", "2">>)
              => e_entity.attrs["company_id"] = PyInt(42)
        /\ HoldsStr("COMPANY_ID", <<"x">>)
              => e_entity.attrs["company_id"] = PyNone
        /\ (e_type = "Deal" /\ HoldsStr("OPPORTUNITY", <<"x">>))
              => e_entity.attrs["opportunity"] = PyFloat(0)
        /\ (e_type = "Deal" /\ HoldsStr("OPPORTUNITY", <<"4", "2">>))
              => e_entity.attrs["opportunity"] = PyFloat(42)
        /\ (e_type # "Contact"
                /\ e_contact_ids = ContactIdsStr(<<"1", ",", "2", ",", "x", ",", "4">>))
              => e_entity.contact_ids = ContactIdsList(<<1, 2, 4>>)
        /\ (e_type # "Contact"
                /\ e_contact_ids = ContactIdsStr(<<"1", ",", "x", ",", "2">>))
              => e_entity.contact_ids = ContactIdsList(<<1, 2>>)

\* a deal with company_id "x" and contact_ids "1,2,x,4"
C13_Witness ==
    /\ EntityBuilt /\ e_type = "Deal"
    /\ HoldsStr("COMPANY_ID", <<"x">>)
    /\ e_contact_ids = ContactIdsStr(<<"1", ",", "2", ",", "x", ",", "4">>)
    /\ e_entity.attrs["company_id"] = PyNone
    /\ e_entity.contact_ids = ContactIdsList(<<1, 2, 4>>)

(***************************************************************************)
(* Claims about entities a caller changes and coerces again (SpecEdit).    *)
(***************************************************************************)
\* C14: coercion is idempotent: a run of _convert_types on an entity that
\* has been coerced since it last changed leaves every attribute as it was.
C14_CoercionIdempotent == e_coercions >= 2 => e_entity = e_prev

\* company_id was set to "42", coerced to 42, and coerced again
C14_Witness ==
    /\ e_coercions = 2
    /\ e_edit = Edit("attr", "company_id", PyStr(<<"4", "2">>))
    /\ e_entity.attrs["company_id"] = PyInt(42)
    /\ e_prev.attrs["company_id"] = PyInt(42)

\* the wire key of a mapped attribute
WireKeyOf(attr) ==
    CHOOSE k \in MappedKeys : bitrix_field_mapping(e_type)[k] = attr

\* to_wire ran on the entity as the caller left it
EditedThenSerialised ==
    e_pc = "done" /\ ~e_raised /\ e_edit # NoEdit /\ e_coercions = 0

\* C15: after the caller changed an explicitly typed attribute, to_wire
\* carries the new value: a mapped attribute under its wire key, a contact's
\* email / phone list under EMAIL / PHONE, a linked-contact id list under
\* some key.
C15_MutationsReachWire ==
    EditedThenSerialised =>
        /\ e_edit.kind = "attr" => e_wire[WireKeyOf(e_edit.name)] = e_edit.value
        /\ e_edit.kind = "email"
              => ("EMAIL" \in DOMAIN e_wire /\ e_wire["EMAIL"] = e_edit.value)
        /\ e_edit.kind = "phone"
              => ("PHONE" \in DOMAIN e_wire /\ e_wire["PHONE"] = e_edit.value)
        /\ (e_edit.kind = "contact_ids" /\ e_edit.name = "list")
              => \E k \in DOMAIN e_wire :
                    e_wire[k].t = "list" /\ e_wire[k].n = e_edit.value.n

\* C16: to_wire gives additional_fields precedence: under every wire key of
\* a mapped attribute that additional_fields also holds, the emitted value is
\* the additional_fields value, whatever the attribute holds.
C16_AdditionalFieldsWin ==
    (e_pc = "done" /\ ~e_raised) =>
        \A k \in (DOMAIN e_entity.additional_fields) \cap MappedKeys :
            e_wire[k] = e_entity.additional_fields[k]

\* additional_fields["COMPANY_ID"] = "y" beat the attribute's 7
C16_Witness ==
    /\ e_pc = "done" /\ ~e_raised
    /\ e_edit = Edit("additional", "COMPANY_ID", PyStr(<<"y">>))
    /\ e_entity.attrs["company_id"] = PyInt(7)
    /\ e_wire["COMPANY_ID"] = PyStr(<<"y">>)

(***************************************************************************)
(* Claims about the registry (SpecRegistry).                               *)
(***************************************************************************)
\* positions of the registered repositories whose declared tag equals the
\* requested one up to letter case
Matching == {i \in 1..Len(r_repos) : Lower(r_repos[i].tag) = Lower(r_arg)}

\* C17: get_repository compares tags case-insensitively and returns the
\* first repository, in registration order, whose declared tag matches; for
\* a tag no registered repository declares it raises; the registry's
\* collection is unchanged by any lookup.
C17_GetRepository ==
    /\ r_repos = r_registered
    /\ r_lookups >= 1 =>
        /\ Matching = {} => r_raised
        /\ Matching # {} =>
            /\ ~r_raised
            /\ r_ret = SomeRepository(
                 r_repos[CHOOSE i \in Matching : \A j \in Matching : i <= j])

\* contact and deal registered: "DEAL" returned the deal repository
C17_Witness ==
    /\ r_lookups >= 1
    /\ r_repos = <<Repository(ContactTag, 1), Repository(DealTag, 1)>>
    /\ r_arg = <<"D", "E", "A", "L">>
    /\ r_ret = SomeRepository(Repository(DealTag, 1))
    /\ ~r_raised

(***************************************************************************)
(* Claims about listing and creation (SpecCap).                            *)
(***************************************************************************)
ListOps == {"list_entities", "deal_list_entities"}
ListingParams == c_requests[1].params
SelectAll == PyStrList(<<"*", "UF_*">>)
NewestFirst == PyDictOf("DATE_CREATE DESC")

\* C18: the listing call of every repository carries the caller's
\* select_fields, or "all fields including custom fields" when the caller
\* gave none, and the caller's order, or newest-created first when the
\* caller gave none.
C18_ListDefaults ==
    (c_op \in ListOps /\ c_requests # <<>>) =>
        /\ "select" \in DOMAIN ListingParams
        /\ ListingParams["select"] =
               (IF c_args.select_fields # <<>>
                THEN PyStrList(c_args.select_fields) ELSE SelectAll)
        /\ "order" \in DOMAIN ListingParams
        /\ ListingParams["order"] =
               (IF c_args.order # "" THEN PyDictOf(c_args.order) ELSE NewestFirst)

\* the records of the page the remote returned, <<>> when it returned none
PageRecs ==
    IF c_responses # <<>> /\ c_responses[1].kind = "env"
       /\ c_responses[1].result.islist
    THEN c_responses[1].result.recs ELSE <<>>

\* C19: for a limit >= 0, list_entities (the generic one and the deal
\* repository's) returns at most limit entities however long the page is,
\* and every entity it returns was built from one of the first limit records
\* of the page.
C19_AtMostLimit ==
    (c_pc = "done" /\ c_op \in ListOps /\ c_args.limit >= 0) =>
        /\ Len(c_ret) <= c_args.limit
        /\ \A i \in 1..Len(c_ret) :
              \E j \in 1..Min(c_args.limit, Len(PageRecs)) :
                  PageRecs[j].rec = "good" /\ PageRecs[j].id = c_ret[i].id

\* a page of two good records listed with limit 1: one entity came back
C19_Witness ==
    /\ c_pc = "done" /\ c_op \in ListOps /\ c_args.limit = 1
    /\ Len(PageRecs) = 2
    /\ PageRecs[1].rec = "good" /\ PageRecs[2].rec = "good"
    /\ Len(c_ret) = 1 /\ c_ret[1].id = PageRecs[1].id

\* the identifier in the envelope of the create response
CreatedRaw == c_responses[1].result

\* C20: create issues exactly one call, the create call with the serialised
\* entity, and returns without raising: the identifier as an integer when
\* the envelope carries a truthy identifier that int() accepts, and None when
\* the response is malformed, the identifier is falsy, or int() rejects it.
C20_Create ==
    (c_pc = "done" /\ c_op = "create") =>
        /\ Len(c_requests) = 1
        /\ c_requests[1] = [method |-> "create",
                            params |-> [fields |-> [to_bitrix |-> c_args.entity]]]
        /\ ~c_raised
        /\ IF c_responses[1].kind = "env" /\ Truthy(CreatedRaw)
              /\ IntOf(CreatedRaw).ok
           THEN c_ret = Some(IntOf(CreatedRaw).n)
           ELSE c_ret = NoneOpt

\* create answered with the identifier "42": the integer 42 came back
C20_Witness ==
    /\ c_pc = "done" /\ c_op = "create"
    /\ c_responses[1] = [kind |-> "env", result |-> PyStr(<<"4", "2">>)]
    /\ c_ret = Some(42)

WriteOps == {"update", "update_fields", "delete"}

\* C21: update, update_fields and delete each issue exactly one remote call
\* (update with the id and the serialised entity, update_fields with the id
\* and the caller's field map, delete with the id) and return, without
\* raising, TRUE exactly when the response is an envelope whose result is
\* truthy.
C21_SuccessFlag ==
    (c_pc = "done" /\ c_op \in WriteOps) =>
        /\ Len(c_requests) = 1
        /\ c_requests[1] =
             (CASE c_op = "update" ->
                     [method |-> "update",
                      params |-> [ID |-> c_args.entity_id,
                                  fields |-> [to_bitrix |-> c_args.entity]]]
                [] c_op = "update_fields" ->
                     [method |-> "update",
                      params |-> [ID |-> c_args.entity_id, fields |-> c_args.fields]]
                [] OTHER ->
                     [method |-> "delete", params |-> [ID |-> c_args.entity_id]])
        /\ ~c_raised
        /\ c_ret = (c_responses[1].kind = "env" /\ Truthy(c_responses[1].result))

\* update_fields answered with a truthy result: TRUE came back
C21_Witness ==
    /\ c_pc = "done"
    /\ c_op = "update_fields" /\ c_args.fields = "TITLE STAGE_ID"
    /\ c_responses[1] = [kind |-> "env", result |-> PyBool(TRUE)]
    /\ c_ret = TRUE

(***************************************************************************)
(* Claims about concurrent walks (SpecWalks).                              *)
(***************************************************************************)
\* the offset the caller asked the walks to start from
FirstOffset ==
    IF start_param_name \in DOMAIN w_args.params
    THEN w_args.params[start_param_name] ELSE 0

RECURSIVE Alone(_, _, _, _)
\* the walk of caller w run on its own against the same remote, from the
\* given offset on: the offsets it asks for and the items it returns
Alone(w, offset, all, offsets) ==
    LET max == w_args.max_items[w]
        done(items, asked, failed) ==
            [offsets |-> asked,
             ret |-> IF failed \/ ~max.some THEN <<>> ELSE Slice(items, max.v)]
    IN IF max.some /\ Len(all) >= max.v THEN done(all, offsets, FALSE)
       ELSE LET response == Remote(offset)
                asked == Append(offsets, offset)
                kept == SelectSeq(response.items,
                                  LAMBDA x : KeepItem(w_args.process_page, x))
            IN CASE response.kind = "raise" -> done(all, asked, TRUE)
                 [] response.kind = "none" \/ response.items = <<>> ->
                      done(all, asked, FALSE)
                 [] Len(response.items) < WalkPageSize ->
                      done(all \o kept, asked, FALSE)
                 [] OTHER -> Alone(w, offset + WalkPageSize, all \o kept, asked)

WalkAlone(w) == Alone(w, FirstOffset, <<>>, <<>>)

\* the params of request i of a walk that starts from the caller's mapping
ParamsAt(offset) == DictSet(w_args.params, start_param_name, offset)

\* C22: two paginate walks on one repository, started with the same params
\* mapping and interleaved in any way at the awaits, each issue the requests
\* and return the items they would issue and return when run alone, and no
\* object returned to one caller is returned to the other.
C22_WalksIsolated ==
    /\ \A w \in Walks :
          LET alone == WalkAlone(w)
          IN /\ Len(w_requests[w]) <= Len(alone.offsets)
             /\ \A i \in 1..Len(w_requests[w]) :
                   w_requests[w][i] = ParamsAt(alone.offsets[i])
             /\ w_pc[w] = "done" =>
                   /\ Len(w_requests[w]) = Len(alone.offsets)
                   /\ [i \in 1..Len(w_ret[w]) |-> w_ret[w][i].item] = alone.ret
                   /\ \A i \in 1..Len(w_ret[w]) : w_ret[w][i].by = w

\* both walks are over, each after two calls or more, and each returned items
C22_Witness ==
    \A w \in Walks :
        /\ w_pc[w] = "done"
        /\ Len(w_requests[w]) >= 2
        /\ w_ret[w] # <<>>

\* C28: paginate never modifies the caller's params mapping: during and
\* after every walk (completed, stopped by a malformed response, or failed)
\* the mapping has the keys and values it had at the call, and the mapping
\* the walk advances is another object than the caller's.
C28_ParamsUntouched ==
    /\ w_heap[0] = w_args.params
    /\ \A w \in Walks : w_pc[w] # "start" => w_cur[w] # 0

\* a caller's mapping without a start key, after a walk that asked for two
\* pages or more and then failed: the mapping still has no start key
C28_Witness ==
    /\ start_param_name \notin DOMAIN w_args.params
    /\ start_param_name \notin DOMAIN w_heap[0]
    /\ \E w \in Walks :
          /\ w_pc[w] = "done" /\ w_caught[w]
          /\ Len(w_requests[w]) >= 2
          /\ w_heap[w_cur[w]][start_param_name] > 0

(***************************************************************************)
(* Claims about the filter builder (SpecFilter).                           *)
(***************************************************************************)
BuildFilterDone == f_pc = "done" /\ f_op = "build_filter"
BaseFilter == f_args.filter_params.d

RECURSIVE Annotated(_)
\* the (key, value) entries the logic argument asks for, in iteration order
Annotated(items) ==
    IF items = <<>> THEN <<>>
    ELSE [i \in 1..Len(Head(items).operators) |->
             [key |-> Head(items).operators[i].operator \o Head(items).field,
              value |-> Head(items).operators[i].value]]
         \o Annotated(Tail(items))

LogicEntries == Annotated(f_args.filter_logic.items)
LogicKeys == {LogicEntries[i].key : i \in 1..Len(LogicEntries)}
InputsKept ==
    /\ f_after.filter_params = f_args.filter_params
    /\ f_after.filter_logic = f_args.filter_logic

\* C23: build_filter(base, logic) returns a mapping that holds every base
\* key with its base value and, for every field and every operator
\* annotated on it, under the operator token followed by the field name, the
\* annotated value; base and logic are not modified.
C23_BuildFilterHoldsAll ==
    BuildFilterDone =>
        /\ \A k \in DOMAIN BaseFilter :
              k \in DOMAIN f_ret /\ f_ret[k] = BaseFilter[k]
        /\ \A i \in 1..Len(LogicEntries) :
              /\ LogicEntries[i].key \in DOMAIN f_ret
              /\ f_ret[LogicEntries[i].key] = LogicEntries[i].value
        /\ InputsKept

\* C23 (amended): the keys of the mapping build_filter returns are the base
\* keys and the operator-then-field keys of logic; a key of logic carries the
\* value of the last annotation, in iteration order, that yields it, every
\* other key its base value; base and logic are not modified.
C23_BuildFilter ==
    BuildFilterDone =>
        /\ DOMAIN f_ret = (DOMAIN BaseFilter) \cup LogicKeys
        /\ \A k \in (DOMAIN BaseFilter) \ LogicKeys : f_ret[k] = BaseFilter[k]
        /\ \A i \in 1..Len(LogicEntries) :
              (\A j \in (i + 1)..Len(LogicEntries) :
                    LogicEntries[j].key # LogicEntries[i].key)
              => f_ret[LogicEntries[i].key] = LogicEntries[i].value
        /\ InputsKept

\* base {"ID": 1, ">=ID": 1} built with logic {"ID": {">=": 5}}: the entry
\* of logic replaced the base entry of the same key
C23_Witness ==
    /\ BuildFilterDone
    /\ BaseFilter = [k \in {"ID", ">=ID"} |-> 1]
    /\ LogicEntries = <<[key |-> ">=ID", value |-> 5]>>
    /\ f_ret = [k \in {"ID", ">=ID"} |-> IF k = "ID" THEN 1 ELSE 5]

RangeDone == f_pc = "done" /\ f_op = "add_range_filter"

\* C24: add_range_filter(field, min, max) returns exactly one entry per
\* bound that is not None: min under '>=' followed by the field, max under
\* '<=' followed by the field; a bound of 0 is emitted.
C24_RangeFilter ==
    RangeDone =>
        /\ DOMAIN f_ret =
              (IF f_args.min_value.some THEN {">=" \o f_args.field} ELSE {})
              \cup (IF f_args.max_value.some THEN {"<=" \o f_args.field} ELSE {})
        /\ f_args.min_value.some => f_ret[">=" \o f_args.field] = f_args.min_value.v
        /\ f_args.max_value.some => f_ret["<=" \o f_args.field] = f_args.max_value.v
        /\ Cardinality(DOMAIN f_ret) =
              (IF f_args.min_value.some THEN 1 ELSE 0)
              + (IF f_args.max_value.some THEN 1 ELSE 0)

\* add_range_filter("PRICE", 0, None) gave the one entry {">=PRICE": 0}
C24_Witness ==
    /\ RangeDone
    /\ f_args = [field |-> "PRICE", min_value |-> Some(0), max_value |-> NoneOpt]
    /\ f_ret = [k \in {">=PRICE"} |-> 0]

(***************************************************************************)
(* Claims about the order and number of paginate's calls.                  *)
(***************************************************************************)
\* the page size the caller declared, and the offset the caller started from
DeclaredPageSize == IF page_size.some THEN page_size.v ELSE DefaultPageSize
DeclaredStart ==
    IF start_param_name \in DOMAIN params THEN params[start_param_name] ELSE 0

\* C25: within one walk a call is issued only when every earlier call has
\* been answered, and call i carries the caller's params with the offset
\* start + (i-1)*P, P the declared page size and start defaulting to 0.
C25_SequentialOffsets ==
    /\ Len(pg_requests) = Len(pg_received) + (IF pg_pc = "await" THEN 1 ELSE 0)
    /\ \A i \in 1..Len(pg_requests) :
          pg_requests[i] =
             DictSet(params, start_param_name,
                     DeclaredStart + (i - 1) * DeclaredPageSize)

\* a walk of pages of 2 from offset 1 that has issued its third call
C25_Witness ==
    /\ page_size = Some(2)
    /\ DeclaredStart = 1
    /\ Len(pg_requests) = 3 /\ Len(pg_received) = 2
    /\ pg_requests[3][start_param_name] = 5

\* the per-page transform returns an item or more for every non-empty page
TransformKeepsSome == process_page = "identity"

\* C27: with max_items = m >= 0 and a transform that returns at least one
\* item per non-empty page, paginate never issues more than m remote calls
\* (none for m = 0) and the walk ends.
C27_BoundedCalls ==
    /\ []((max_items.some /\ TransformKeepsSome) => Len(pg_requests) <= max_items.v)
    /\ (max_items.some /\ TransformKeepsSome) => <>(pg_pc = "done")

\* m = 3 and a remote that served a full page at every offset: the walk is
\* over after exactly 3 calls
C27_Witness ==
    /\ pg_pc = "done"
    /\ max_items = Some(3) /\ TransformKeepsSome
    /\ Len(pg_requests) = 3
    /\ \A i \in 1..3 : /\ pg_received[i].kind = "page"
                       /\ Len(pg_received[i].items) = actual_page_size

(***************************************************************************)
(* Claims about deal-to-contact hydration (SpecCap).                       *)
(***************************************************************************)
HydrationStarted == c_op = "get_deal_contacts" /\ c_requests # <<>>

\* the link fetch was answered with an envelope holding a list of records
LinksDelivered ==
    /\ c_responses # <<>>
    /\ c_responses[1].kind = "env"
    /\ c_responses[1].result.islist
LinkRecords == c_responses[1].result.recs

\* C26: get_deal_contacts first fetches the deal's link records; only after
\* that response it issues at most one further call, the contact listing
\* filtered by exactly the contact ids of those records, in their order; when
\* the link fetch fails or delivers no records there is no second call and
\* the result is the empty list.
C26_HydrationProtocol ==
    HydrationStarted =>
        /\ c_requests[1] = [method |-> "crm.deal.contact.items.get",
                            params |-> [ID |-> c_args.deal_id]]
        /\ Len(c_requests) <= 2
        /\ Len(c_requests) <= Len(c_responses) + 1
        /\ Len(c_requests) = 2 =>
              /\ LinksDelivered /\ LinkRecords # <<>>
              /\ c_requests[2].method = "list"
              /\ c_requests[2].params.filter.ID =
                    [i \in 1..Len(LinkRecords) |-> LinkRecords[i].id]
        /\ (c_pc = "done" /\ (~LinksDelivered \/ LinkRecords = <<>>)) =>
              /\ Len(c_requests) = 1
              /\ c_ret = <<>> /\ ~c_raised

\* two link records, contacts 22 and 21: the listing asked for <<22, 21>>
\* and both contacts came back
C26_Witness ==
    /\ HydrationStarted /\ c_pc = "done"
    /\ LinksDelivered
    /\ LinkRecords = <<Rec("good", 22), Rec("good", 21)>>
    /\ c_requests[2].params.filter.ID = <<22, 21>>
    /\ Len(c_ret) = 2

(***************************************************************************)
(* Claims about processors that raise (SpecBatch).                         *)
(***************************************************************************)
GetByIdsDone == b_pc = "done" /\ b_op = "batch_get_by_ids" /\ b_ids # <<>>

\* what the processor does with the result of the command of position i
OutcomeAt(i) == b_processor[RawEntry(CmdKey(i - 1))]

\* C29: when the processor raises for the raw result of any one id,
\* batch_get_by_ids returns the empty mapping, whatever it built for the
\* other ids; when it raises for none, an id for which it returned None is
\* left out and every id for which it returned an entity is a key.
C29_ProcessorRaise ==
    GetByIdsDone =>
        /\ (\E i \in 1..Len(b_ids) : Produced(i) /\ OutcomeAt(i) = "raise")
              => (b_ret = EmptyDict /\ ~b_raised)
        /\ (\A i \in 1..Len(b_ids) : Produced(i) => OutcomeAt(i) # "raise")
              => \A i \in 1..Len(b_ids) :
                    /\ (Produced(i) /\ OutcomeAt(i) = "entity")
                          => b_ids[i] \in DOMAIN b_ret
                    /\ (DistinctIds /\ Produced(i) /\ OutcomeAt(i) = "none")
                          => b_ids[i] \notin DOMAIN b_ret

\* two ids: the processor built the entity of the first and raised for the
\* second; the empty mapping came back
C29_Witness ==
    /\ GetByIdsDone /\ Len(b_ids) = 2 /\ DistinctIds
    /\ Produced(1) /\ OutcomeAt(1) = "entity"
    /\ Produced(2) /\ OutcomeAt(2) = "raise"
    /\ b_ret = EmptyDict

(***************************************************************************)
(* Claims about the records list_entities builds (SpecCap).                *)
(***************************************************************************)
RECURSIVE Deserialized(_)
\* the entities of the records that from_bitrix accepts, in order
Deserialized(recs) ==
    IF recs = <<>> THEN <<>>
    ELSE (IF Head(recs).rec = "good" THEN <<Entity(Head(recs).id, <<>>)>> ELSE <<>>)
         \o Deserialized(Tail(recs))

\* C30: for limit >= 0 the generic list_entities returns, in remote order,
\* exactly the entities of the records that deserialize among the first
\* limit records of the page: a record that fails to deserialize is skipped,
\* the others are kept, and no record beyond position limit is used.
C30_ExactlyTheDeserialized ==
    (c_pc = "done" /\ c_op = "list_entities" /\ c_args.limit >= 0) =>
        c_ret = Deserialized(Slice(PageRecs, c_args.limit))

====
